---- MODULE Spec2Model ----
(***************************************************************************)
(* A model of the workout planner's in-memory aggregate,                   *)
(* WorkoutDataManager (src/js/application/WorkoutDataManager.js).          *)
(*                                                                         *)
(* JavaScript values are modelled as follows.                              *)
(*  - A string that is only copied or compared (a name, an event, a day    *)
(*    key) is a TLA+ string; "" is the falsy string, and also stands for   *)
(*    a missing property of that kind.                                     *)
(*  - A string the code parses (an entry's weight) is a sequence of        *)
(*    one-character strings, so that the regular expression and parseInt   *)
(*    are computed.  << >> is the falsy (empty or missing) string.         *)
(*  - A number is a natural; 0 is the falsy number, and also stands for a  *)
(*    missing numeric property.                                            *)
(*  - An array is a sequence.  A property that may hold an array, nothing, *)
(*    null, or something else is a record [kind, items].                   *)
(*  - Timestamps (createdAt, updatedAt, addedAt, exportedAt) are values of *)
(*    the wall clock and are left out of the state.                        *)
(***************************************************************************)
EXTENDS Integers, Sequences, FiniteSets, TLC

(***************************************************************************)
(* Bounds of the model.                                                    *)
(***************************************************************************)
\* Spec: the index arguments range over 0 .. MaxIndex, and addExerciseToDay
\* is called while the aggregate holds fewer than MaxEntries entries
MaxIndex == 1

MaxEntries == 1

\* SpecMoves: the same two bounds
MaxMoveIndex == 3

MaxMoveEntries == 3

\* SpecEvents: the same two bounds
MaxEventIndex == 1

MaxEventEntries == 1

\* SpecCalculator: weights of 0 .. MaxWeight kg, and heights of 0 and
\* MinHeight .. MaxHeight cm
MaxWeight == 130

MinHeight == 100

MaxHeight == 200

\* SpecWorkout: a workout of at most MaxExercises exercises, and index
\* arguments of 0 .. MaxExerciseIndex
MaxExercises == 2

MaxExerciseIndex == 1

\* SpecLoader: at most MaxLoads calls of loadContent and
\* loadContentWithTimeout
MaxLoads == 3

\* SpecRouting: at most MaxNavigations calls of navigateTo
MaxNavigations == 2

\* SpecSession: sessions are saved up to MaxSessionStart seconds after the
\* page opened, or around the instants at which those expire
MaxSessionStart == 2

\* SpecAuth: at most MaxLogins calls of authenticate
MaxLogins == 2

\* SpecService: calls of getWorkout and updateWorkout that wait for a fetch
MaxServiceRequests == 2

\* SpecView: the entries over all days
MaxViewEntries == 2

\* SpecCache: the clock reaches up to MaxOffset seconds past MaxLifetimes
\* times the cache's time-to-live, and at most MaxRequests fetches are in
\* flight
MaxLifetimes == 1

MaxOffset == 2

MaxRequests == 2

\* SpecReads: at most MaxReadRequests fetches are in flight
MaxReadRequests == 2

\* SpecStorage: at most MaxStorageRequests fetches are in flight, and the
\* stored collection holds at most MaxStored entities
MaxStorageRequests == 1

MaxStored == 2

(***************************************************************************)
(* Day keys.                                                               *)
(***************************************************************************)
requiredDays == <<"monday", "tuesday", "wednesday", "thursday", "friday", "saturday", "sunday">>

Weekdays == {requiredDays[i] : i \in 1..Len(requiredDays)}

\* a key that is no weekday: the mapping is a plain object and takes any key
OtherDay == "funday"

DayKeys == Weekdays \cup {OtherDay}

\* the day arguments the operations are called with under Spec
ArgDays == {"monday", OtherDay}

ArgIndexes == 0..MaxIndex

\* under SpecMoves: the days entries are taken from, and the days they go to
FromDays == {"monday", "tuesday"}

ToDays == {"monday", "tuesday", OtherDay}

MoveIndexes == 0..MaxMoveIndex

\* under SpecEvents
EventDays == {"monday", OtherDay}

EventIndexes == 0..MaxEventIndex

(***************************************************************************)
(* Values held under a day key: nothing, null, an array, or another        *)
(* truthy value that is no array (a string, a number, an object).          *)
(***************************************************************************)
Absent == [kind |-> "absent", items |-> << >>]

Null == [kind |-> "null", items |-> << >>]

NotAList == [kind |-> "other", items |-> << >>]

List(s) == [kind |-> "list", items |-> s]

\* JavaScript truthiness of a value held under a day key
Truthy(v) == v.kind \in {"list", "other"}

IsArray(v) == v.kind = "list"

(***************************************************************************)
(* Helpers on sequences: Array.prototype.splice as the code uses it.       *)
(***************************************************************************)
Min(a, b) == IF a <= b THEN a ELSE b

\* s.splice(i, 1) for 0 <= i < s.length: the list without its element i (0-based)
SpliceOut(s, i) == [k \in 1..(Len(s) - 1) |-> IF k <= i THEN s[k] ELSE s[k + 1]]

\* s.splice(i, 0, e) for 0 <= i <= s.length: e is inserted before element i (0-based)
SpliceIn(s, i, e) == [k \in 1..(Len(s) + 1) |-> IF k <= i THEN s[k] ELSE IF k = i + 1 THEN e ELSE s[k - 1]]

RECURSIVE SumLen(_, _)
SumLen(days, keys) ==
    IF keys = {} THEN 0
    ELSE LET k == CHOOSE x \in keys : TRUE
         IN Len(days[k].items) + SumLen(days, keys \ {k})

\* the number of entries over all days
TotalEntries(days) == SumLen(days, DayKeys)

(***************************************************************************)
(* Entries of a day's list.  The fields are the ones the manager reads or  *)
(* writes; every other property of an entry is copied like `name`.         *)
(***************************************************************************)
NoChars == << >>

Entry(id, name, type, reps, repsCount, weight, weightValue, intensity) ==
    [id |-> id, name |-> name, type |-> type, reps |-> reps, repsCount |-> repsCount,
     weight |-> weight, weightValue |-> weightValue, intensity |-> intensity]

\* the object {} : no property set
EmptyObject == Entry(0, "", "", 0, 0, NoChars, NoChars, 0)

DigitChars == <<"0", "1", "2", "3", "4", "5", "6", "7", "8", "9">>

IsDigit(c) == \E n \in 1..Len(DigitChars) : DigitChars[n] = c

DigitValue(c) == (CHOOSE n \in 1..Len(DigitChars) : DigitChars[n] = c) - 1

RECURSIVE DropNonDigits(_)
DropNonDigits(s) ==
    IF s = << >> \/ IsDigit(Head(s)) THEN s ELSE DropNonDigits(Tail(s))

RECURSIVE TakeDigits(_)
TakeDigits(s) ==
    IF s = << >> \/ ~IsDigit(Head(s)) THEN << >> ELSE <<Head(s)>> \o TakeDigits(Tail(s))

\* String(weight).match(/(\d+)%?/): group 1 of the leftmost match, << >> when none
weightMatch(weight) == TakeDigits(DropNonDigits(weight))

RECURSIVE ParseDigits(_, _)
ParseDigits(s, acc) ==
    IF s = << >> THEN acc ELSE ParseDigits(Tail(s), 10 * acc + DigitValue(Head(s)))

\* parseInt of a run of decimal digits
parseInt(digits) == ParseDigits(digits, 0)

\* the callback of normalizeWorkoutData's map over a day's entries
NormalizeExercise(exercise) ==
    LET e1 == IF exercise.repsCount # 0 /\ exercise.reps = 0
              THEN [exercise EXCEPT !.reps = exercise.repsCount]
              ELSE exercise
        e2 == IF e1.weightValue # NoChars /\ e1.weight = NoChars
              THEN [e1 EXCEPT !.weight = e1.weightValue]
              ELSE e1
        e3 == IF e2.weight # NoChars /\ e2.intensity = 0 /\ weightMatch(e2.weight) # << >>
              THEN [e2 EXCEPT !.intensity = parseInt(weightMatch(e2.weight))]
              ELSE e2
    IN IF e3.type = "" THEN [e3 EXCEPT !.type = "exercise"] ELSE e3

(***************************************************************************)
(* The aggregate and the documents it is loaded from and exported to.      *)
(***************************************************************************)
DefaultName == "My Custom Workout"

DefaultDifficulty == 5

DefaultTags == List(<<"custom">>)

EmptyDays == [d \in DayKeys |-> IF d \in Weekdays THEN List(<< >>) ELSE Absent]

NoDays == [d \in DayKeys |-> Absent]

\* a property that should hold the day mapping: missing, an object, or a
\* truthy value that is no object
NoMap == [kind |-> "absent", map |-> NoDays]

Map(m) == [kind |-> "map", map |-> m]

NotAMap == [kind |-> "other", map |-> NoDays]

\* a value passed to loadWorkoutData, or parsed from an exported file
Document(isObject, id, name, description, difficulty, tags, days, schedule) ==
    [isObject |-> isObject, id |-> id, name |-> name, description |-> description,
     difficulty |-> difficulty, tags |-> tags, days |-> days, schedule |-> schedule]

RECURSIVE IdsOf(_)
IdsOf(s) == IF s = << >> THEN {} ELSE {Head(s).id} \cup IdsOf(Tail(s))

\* the ids in use in an aggregate with these days and this id of its own
UsedIds(days, id) == {id} \cup UNION {IdsOf(days[d].items) : d \in DayKeys}

\* generateId(): the clock and random digits, taken to be unique; modelled as
\* the least positive number that is not among the ids in use where the new
\* id goes
generateId(used) == CHOOSE n \in 1..(Cardinality(used) + 1) :
                       /\ n \notin used
                       /\ \A m \in 1..(n - 1) : m \in used

createEmptyWorkout(id) ==
    [id |-> id, name |-> DefaultName, description |-> "", difficulty |-> DefaultDifficulty,
     tags |-> DefaultTags, days |-> EmptyDays]

\* the blank names: name.trim() === ''
BlankNames == {"", " "}

\* validateWorkoutData: the set of errors
validateWorkoutData(data) ==
    IF ~data.isObject THEN {"Workout data must be an object"}
    ELSE LET workoutDays == IF data.days.kind # "absent" THEN data.days ELSE data.schedule
         IN (IF data.name \in BlankNames THEN {"Workout name is required"} ELSE {})
            \cup
            (IF workoutDays.kind # "map"
             THEN {"Workout days must be an object"}
             ELSE {"Day must be an array" : d \in
                     {x \in Weekdays : Truthy(workoutDays.map[x]) /\ ~IsArray(workoutDays.map[x])}})

\* NormalizeDay without the filling in of a missing weekday
NormalizeDay_KeepMissing(v) ==
    IF ~Truthy(v) THEN v
    ELSE List([i \in 1..Len(v.items) |-> NormalizeExercise(v.items[i])])

NormalizeDay(v) ==
    IF ~Truthy(v) THEN List(<< >>)
    ELSE List([i \in 1..Len(v.items) |-> NormalizeExercise(v.items[i])])

\* normalizeWorkoutData throws a TypeError when it writes into a day mapping
\* that is no object, or maps over a weekday value that is no array
NormalizeThrows(data) ==
    LET days == IF data.schedule.kind # "absent" /\ data.days.kind = "absent"
                THEN data.schedule ELSE data.days
    IN \/ days.kind = "other"
       \/ /\ days.kind = "map"
          /\ \E d \in Weekdays : Truthy(days.map[d]) /\ ~IsArray(days.map[d])

\* normalizeWorkoutData without the conversion of `schedule` to `days`
normalizeWorkoutData_DaysOnly(data) ==
    LET map == IF data.days.kind = "absent" THEN NoDays ELSE data.days.map
    IN [isObject |-> TRUE,
        id |-> IF data.id = 0 THEN generateId(UsedIds(map, 0)) ELSE data.id,
        name |-> data.name,
        description |-> data.description,
        difficulty |-> IF data.difficulty = 0 THEN DefaultDifficulty ELSE data.difficulty,
        tags |-> IF Truthy(data.tags) THEN data.tags ELSE DefaultTags,
        days |-> Map([d \in DayKeys |-> IF d \in Weekdays THEN NormalizeDay(map[d]) ELSE map[d]]),
        schedule |-> data.schedule]

\* normalizeWorkoutData, when it does not throw
normalizeWorkoutData(data) ==
    LET moved == data.schedule.kind # "absent" /\ data.days.kind = "absent"
        days == IF moved THEN data.schedule ELSE data.days
        map == IF days.kind = "absent" THEN NoDays ELSE days.map
    IN [isObject |-> TRUE,
        id |-> IF data.id = 0 THEN generateId(UsedIds(map, 0)) ELSE data.id,
        name |-> data.name,
        description |-> data.description,
        difficulty |-> IF data.difficulty = 0 THEN DefaultDifficulty ELSE data.difficulty,
        tags |-> IF Truthy(data.tags) THEN data.tags ELSE DefaultTags,
        days |-> Map([d \in DayKeys |-> IF d \in Weekdays THEN NormalizeDay(map[d]) ELSE map[d]]),
        schedule |-> IF moved THEN NoMap ELSE data.schedule]

\* this.workoutData = { ...processedData }
FromDocument(doc) ==
    [id |-> doc.id, name |-> doc.name, description |-> doc.description,
     difficulty |-> doc.difficulty, tags |-> doc.tags, days |-> doc.days.map]

(***************************************************************************)
(* exportToJSON and JSON.parse.  JSON.stringify writes the own properties  *)
(* of the aggregate in order, arrays element by element, and leaves out    *)
(* every property whose value is undefined; JSON.parse builds new objects  *)
(* and arrays from the text.                                               *)
(***************************************************************************)
StringifyDay(v) == IF v.kind = "list" THEN List([i \in 1..Len(v.items) |-> v.items[i]])
                   ELSE IF v.kind = "absent" THEN Absent
                   ELSE v

exportToJSON(wd) ==
    Document(TRUE, wd.id, wd.name, wd.description, wd.difficulty,
             StringifyDay(wd.tags),
             Map([d \in DayKeys |-> StringifyDay(wd.days[d])]),
             NoMap)

(***************************************************************************)
(* Inputs of the operations.                                               *)
(***************************************************************************)
Percent80 == <<"8", "0", "%">>

Heavy == <<"h", "e", "a", "v", "y">>

\* an exercise picked from the library, a rest period, and null
Squat == Entry(0, "squat", "", 0, 0, Percent80, NoChars, 0)

Pause == Entry(0, "pause", "rest", 0, 0, NoChars, NoChars, 0)

Exercise(obj) == [null |-> FALSE, obj |-> obj]

NullExercise == [null |-> TRUE, obj |-> EmptyObject]

AddInputs == {Exercise(Squat), NullExercise}

\* updates of an entry: the properties named in keys, with their values
SetReps == [keys |-> {"reps"}, vals |-> [EmptyObject EXCEPT !.reps = 12]]

NoUpdates == [keys |-> {}, vals |-> EmptyObject]

UpdateInputs == {SetReps, NoUpdates}

\* updates of the metadata; id and days are not among the allowed fields
Rename == [keys |-> {"name", "difficulty"},
           vals |-> [createEmptyWorkout(0) EXCEPT !.name = "Plan", !.difficulty = 8]]

Unname == [keys |-> {"name"}, vals |-> [createEmptyWorkout(0) EXCEPT !.name = ""]]

Overwrite == [keys |-> {"id", "days"}, vals |-> [createEmptyWorkout(9) EXCEPT !.days = NoDays]]

MetadataInputs == {Rename, Unname, Overwrite}

\* entries as files written by hand or by older versions hold them
Row == Entry(0, "row", "", 0, 8, NoChars, Heavy, 0)

StoredSquat == Entry(7, "squat", "exercise", 10, 0, Percent80, NoChars, 0)

OnlyDays(m) == [d \in DayKeys |-> IF d \in DOMAIN m THEN m[d] ELSE Absent]

\* days given for one weekday, another one null
StoredPlan == Document(TRUE, 0, "Plan", "", 8, Absent,
                       Map(OnlyDays([monday |-> List(<<StoredSquat>>), tuesday |-> Null])), NoMap)

\* the legacy key
LegacyPlan == Document(TRUE, 0, "Plan", "", 8, Absent,
                       NoMap, Map(OnlyDays([tuesday |-> List(<<Row, Pause>>), sunday |-> List(<< >>)])))

\* not an object: null
NullDocument == Document(FALSE, 0, "", "", 0, Absent, NoMap, NoMap)

LoadInputs ==
    {StoredPlan,
     LegacyPlan,
     \* both keys: days wins
     Document(TRUE, 0, "Plan", "", 8, Absent,
              Map(OnlyDays([monday |-> List(<< >>)])), Map(OnlyDays([tuesday |-> List(<<Pause>>)]))),
     \* no day mapping at all
     Document(TRUE, 0, "Plan", "", 0, Absent, NoMap, NoMap),
     \* no name, a blank name
     Document(TRUE, 0, "", "", 0, Absent, Map(NoDays), NoMap),
     Document(TRUE, 0, " ", "", 0, Absent, Map(NoDays), NoMap),
     \* a weekday that holds no array, under either key
     Document(TRUE, 0, "Plan", "", 0, Absent, Map(OnlyDays([monday |-> NotAList])), NoMap),
     Document(TRUE, 0, "Plan", "", 0, Absent, NoMap, Map(OnlyDays([friday |-> NotAList]))),
     \* a day mapping that is no object
     Document(TRUE, 0, "Plan", "", 0, Absent, NotAMap, NoMap),
     NullDocument}

\* the values addObserver is called with: two callbacks and a value that is
\* no function
Render == "render"

Faulty == "faulty"

NotAFunction == "notAFunction"

Observers == {Render, Faulty}

\* the observer that throws from its callback
Throws(observer) == observer = Faulty

(***************************************************************************)
(* JsonRepository (src/js/infrastructure/repositories/JsonRepository.js),  *)
(* its subclasses and the services that read through them.                 *)
(*  - The clock counts seconds: Date.now() / 1000.                         *)
(*  - An entity is a record [id, name]; id 0 is a missing id.              *)
(*  - An item of localStorage is Absent (no item), Unparsable (a string    *)
(*    JSON.parse throws on), Null ("null"), NotAList (any other value that *)
(*    is no array) or List(entities).                                      *)
(***************************************************************************)
\* this.cacheExpiry = 5 * 60 * 1000 milliseconds
cacheExpiry == 5 * 60

\* the instants at which something happens: up to MaxOffset seconds after 0,
\* 1, .. MaxLifetimes times the time-to-live
Instants ==
    {k * cacheExpiry + j : k \in 0..MaxLifetimes, j \in 0..MaxOffset} \ {0}

\* super('exercise-data.json', Exercise): no localStorage key
ExerciseRepository ==
    [dataFileName |-> "exercise-data.json", localStorageKey |-> ""]

\* super('ready-workouts-data.json', Workout, 'user-workouts')
WorkoutRepository ==
    [dataFileName |-> "ready-workouts-data.json", localStorageKey |-> "user-workouts"]

Repositories == {ExerciseRepository, WorkoutRepository}

StorageKeys == {"user-workouts", "user-session", "user-profile", "app-language", "app-theme"}

Unparsable == [kind |-> "unparsable", items |-> << >>]

Entity(id, name) == [id |-> id, name |-> name]

\* the entities in the data file
FileEntities == <<Entity(1, "first"), Entity(2, "second")>>

\* what response.json() gives for the data file
FileData == [entities |-> FileEntities]

\* this.cache: a Map with at most the one key `file-${dataFileName}`
NoEntry == [has |-> FALSE, data |-> [entities |-> << >>]]

Cached(data) == [has |-> TRUE, data |-> data]

\* how a fetch of the data file ends: with the data, with a response that
\* is not ok, with a rejected fetch, with a body that is no JSON
FetchOutcomes == {"ok", "notOk", "failed", "badJson"}

\* the read methods that are called: the repository's own loadFromFile and
\* methods of ExerciseService and WorkoutService
ReadersOf(repo) ==
    IF repo.dataFileName = ExerciseRepository.dataFileName
    THEN {"loadFromFile", "getAllExercises", "getExercise", "searchExercises"}
    ELSE {"loadFromFile", "getAllWorkouts", "getPredefinedWorkouts"}

\* values a promise settles with
NullValue == [kind |-> "null", items |-> << >>]

Data(data) == [kind |-> "data", items |-> data.entities]

ErrorValue(message) == [kind |-> "error", items |-> <<message>>]

\* loadFromStorage(): null without a key, without an item and when
\* JSON.parse throws; the parsed value otherwise
loadFromStorage(store, key) ==
    IF key = "" THEN Null
    ELSE IF store[key].kind \in {"absent", "unparsable"} THEN Null
    ELSE store[key]

\* saveToStorage(data): nothing without a key
saveToStorage(store, key, data) ==
    IF key = "" THEN store ELSE [store EXCEPT ![key] = List(data)]

\* JsonRepository.generateId(): a string of the clock and a random number,
\* modelled as the least id no stored entity has
JsonRepository_generateId(data) == generateId({data[k].id : k \in 1..Len(data)})

\* the entities create, update and delete are called with
NewEntities == {Entity(0, "mine"), Entity(2, "copy")}

EntityIds == {1, 2}

\* the `updates` of update(): a new name
EntityUpdates == {Entity(0, "renamed")}

\* what the storage holds under the repository's key when the page opens
StoredAtStart == {Absent, Unparsable, NotAList, List(<<Entity(1, "saved")>>)}

(***************************************************************************)
(* BMIService (src/unnamed/part_003).  A body mass index is kept in tenths *)
(* where the code rounds it (229 is 22.9).  The code computes in IEEE 754  *)
(* doubles: height / 100, its square and the quotient are each rounded, so *)
(* the double `bmi` can lie just below or just above the exact quotient.   *)
(* The model keeps the exact quotient as a fraction num / den and the side *)
(* (-1, 0, 1) on which the double lies; the side only matters where the    *)
(* exact quotient sits on a category bound or half-way between two tenths. *)
(***************************************************************************)
Weights == 0..MaxWeight

Heights == {0} \cup (MinHeight..MaxHeight)

Units == {"metric", "imperial"}

\* this.bmiCategories, in the order of Object.entries, bounds in tenths
bmiCategories ==
    <<[name |-> "underweight", min |-> 0, max |-> 185],
      [name |-> "normal", min |-> 185, max |-> 250],
      [name |-> "overweight", min |-> 250, max |-> 300],
      [name |-> "obese", min |-> 300, max |-> 1000]>>

\* the exact value of bmi as a fraction.  metric: weight / (height / 100)^2;
\* imperial: (weight / (height * height)) * 703
ExactBMI(weight, height, unit) ==
    IF unit = "imperial"
    THEN [num |-> 703 * weight, den |-> height * height]
    ELSE [num |-> 10000 * weight, den |-> height * height]

\* the sides on which the double can lie.  With a metric height that is a
\* multiple of 25 cm, height / 100 and its square are exact, and so is the
\* quotient wherever it is a multiple of a quarter; elsewhere the roundings
\* can leave the double on either side of the exact quotient
Sides(weight, height, unit) ==
    IF unit = "metric" /\ height % 25 = 0 THEN {0} ELSE {-1, 0, 1}

\* bmi >= bound, for a bound in tenths
AtLeast(bmi, side, bound) ==
    LET c == 10 * bmi.num - bound * bmi.den
    IN c > 0 \/ (c = 0 /\ side >= 0)

\* parseFloat(bmi.toFixed(1)), in tenths: the nearest tenth, and of two
\* equally near ones the larger
toFixed1(bmi, side) ==
    LET q == (10 * bmi.num) \div bmi.den
        r == (10 * bmi.num) % bmi.den
    IN IF 2 * r > bmi.den \/ (2 * r = bmi.den /\ side >= 0) THEN q + 1 ELSE q

\* getBMICategory(bmi): the first category with min <= bmi < max
getBMICategory(bmi, side) ==
    LET fits == {k \in 1..Len(bmiCategories) :
                    /\ AtLeast(bmi, side, bmiCategories[k].min)
                    /\ ~AtLeast(bmi, side, bmiCategories[k].max)}
    IN IF fits = {} THEN "unknown"
       ELSE bmiCategories[CHOOSE k \in fits : \A j \in fits : k <= j].name

isHealthyBMI(bmi, side) == AtLeast(bmi, side, 185) /\ ~AtLeast(bmi, side, 250)

NotCalculated == [threw |-> FALSE, value |-> 0, category |-> "", isHealthy |-> FALSE]

\* calculateBMI(weight, height, unit)
calculateBMI(weight, height, unit, side) ==
    IF weight = 0 \/ height = 0 \/ weight <= 0 \/ height <= 0
    THEN [threw |-> TRUE, value |-> 0, category |-> "", isHealthy |-> FALSE]
    ELSE LET bmi == ExactBMI(weight, height, unit)
         IN [threw |-> FALSE,
             value |-> toFixed1(bmi, side),
             category |-> getBMICategory(bmi, side),
             isHealthy |-> isHealthyBMI(bmi, side)]

(***************************************************************************)
(* Workout (src/unnamed/part_007), the domain entity.  An exercise of a    *)
(* workout is a record of the three properties updateWorkoutMetadata       *)
(* reads: difficultyLevel (0: missing), equipment ("": missing) and        *)
(* targetMuscles (<< >>: missing or empty).                                *)
(***************************************************************************)
WorkoutExercise(difficultyLevel, equipment, targetMuscles) ==
    [difficultyLevel |-> difficultyLevel, equipment |-> equipment,
     targetMuscles |-> targetMuscles]

\* the exercises addExercise is called with; the last stands for null
BenchPress == WorkoutExercise(2, "barbell", <<"chest", "triceps">>)

PullUp == WorkoutExercise(7, "bar", <<"back">>)

Plank == WorkoutExercise(0, "", << >>)

NoExercise == [null |-> TRUE, obj |-> Plank]

WorkoutExercises ==
    {[null |-> FALSE, obj |-> x] : x \in {BenchPress, PullUp, Plank}} \cup {NoExercise}

\* the `updates` of updateExercise: a property it does not name is 0, "" or
\* << >>
ExerciseUpdates ==
    {WorkoutExercise(9, "kettlebell", << >>),
     WorkoutExercise(0, "", <<"legs">>)}

ExerciseIndexes == 0..MaxExerciseIndex

\* Array.from(new Set(...)) of the elements of s: without repetitions, in
\* the order of their first occurrence
RECURSIVE Distinct(_)
Distinct(s) ==
    IF s = << >> THEN << >>
    ELSE LET rest == Distinct(SubSeq(s, 1, Len(s) - 1))
         IN IF \E k \in 1..Len(rest) : rest[k] = s[Len(s)] THEN rest
            ELSE Append(rest, s[Len(s)])

\* the muscles of the exercises, in order
RECURSIVE MusclesOf(_)
MusclesOf(exercises) ==
    IF exercises = << >> THEN << >>
    ELSE Head(exercises).targetMuscles \o MusclesOf(Tail(exercises))

\* the equipment of the exercises that name one, in order
RECURSIVE EquipmentOf(_)
EquipmentOf(exercises) ==
    IF exercises = << >> THEN << >>
    ELSE (IF Head(exercises).equipment # "" THEN <<Head(exercises).equipment>> ELSE << >>)
         \o EquipmentOf(Tail(exercises))

\* the reduce of updateWorkoutMetadata: the sum of difficultyLevel || 3
RECURSIVE DifficultySum(_)
DifficultySum(exercises) ==
    IF exercises = << >> THEN 0
    ELSE (IF Head(exercises).difficultyLevel # 0 THEN Head(exercises).difficultyLevel ELSE 3)
         + DifficultySum(Tail(exercises))

\* Math.round(sum / n) for a positive n: halves go up
MathRound(sum, n) == (2 * sum + n) \div (2 * n)

\* Workout.updateWorkoutMetadata(): nothing for a workout without exercises
Workout_updateWorkoutMetadata(w) ==
    IF Len(w.exercises) = 0 THEN w
    ELSE [w EXCEPT !.targetMuscles = Distinct(MusclesOf(w.exercises)),
                   !.equipment = Distinct(EquipmentOf(w.exercises)),
                   !.difficulty = MathRound(DifficultySum(w.exercises), Len(w.exercises))]

\* { ...exercise, ...updates } on the three properties
SpreadExercise(exercise, updates) ==
    [difficultyLevel |-> IF updates.difficultyLevel # 0 THEN updates.difficultyLevel
                         ELSE exercise.difficultyLevel,
     equipment |-> IF updates.equipment # "" THEN updates.equipment ELSE exercise.equipment,
     targetMuscles |-> IF updates.targetMuscles # << >> THEN updates.targetMuscles
                       ELSE exercise.targetMuscles]

\* new Workout({ name }): the defaults of the constructor
NewWorkout == [exercises |-> << >>, targetMuscles |-> << >>, equipment |-> << >>,
               difficulty |-> 3]

(***************************************************************************)
(* ContentLoader (src/js/presentation/controllers/ContentLoader.js).  A    *)
(* load is one call of loadContent, directly or from                       *)
(* loadContentWithTimeout: its arguments, what it found when it was called *)
(* (inProgress: a fetch of the file was under way; sinceSuccess: a fetch   *)
(* of the file started with caching enabled had succeeded, and the cache   *)
(* was not cleared or invalidated since), the branch it took (role), how   *)
(* the loadContent promise stands (inner), the timer of the wrapper and    *)
(* which of the two came first, and how the promise the caller holds       *)
(* settled.                                                                *)
(***************************************************************************)
ContentFiles == {"home.html", "login.html", "profile-information.html"}

\* the files SpecLoader loads
LoaderFiles == {"home.html", "login.html"}

LoaderMethods == {"loadContent", "loadContentWithTimeout"}

\* the arguments of a call: loadContentWithTimeout passes no useCache
LoadArguments ==
    {a \in [file : LoaderFiles, useCache : BOOLEAN, via : LoaderMethods] :
        a.via = "loadContentWithTimeout" => a.useCache}

\* the catch of loadContentWithTimeout: the rejection of the timer becomes
\* a result
TimeoutSettlement_Uncaught == [settled |-> "rejected", result |-> "timeout"]

TimeoutSettlement == [settled |-> "resolved", result |-> "timeout"]

\* loadingPromises.has(cacheKey)
HasLoadingPromise_Never(promises, file) == FALSE

HasLoadingPromise(promises, file) == promises[file] # "none"

\* useCache && this.cache.has(cacheKey)
CacheHit(cached, file, useCache) == useCache /\ file \in cached

(***************************************************************************)
(* NavigationConfig (src/js/presentation/pages/WorkoutCreatorPage.js) and  *)
(* the AppController (src/js/presentation/controllers/AppController.js).   *)
(***************************************************************************)
RouteTypes == [CONTENT |-> "content", COMPONENT |-> "component", STATIC |-> "static"]

Route(type, path, requiresAuth) ==
    [type |-> type, path |-> path, requiresAuth |-> requiresAuth]

NavigationConfig ==
    [home |-> Route(RouteTypes.CONTENT, "home.html", FALSE),
     login |-> Route(RouteTypes.CONTENT, "login.html", FALSE),
     profile |-> Route(RouteTypes.CONTENT, "profile-information.html", TRUE),
     bmiCalculator |-> Route(RouteTypes.COMPONENT, "", FALSE),
     about |-> Route(RouteTypes.STATIC, "", FALSE)]

DEFAULT_ROUTE == "home"

LOGIN_ROUTE == "login"

\* the page names navigateTo is called with; the last is no route
PageNames == DOMAIN NavigationConfig \cup {"settings"}

\* getRouteConfig(pageName) is not null
HasRouteConfig(pageName) == pageName \in DOMAIN NavigationConfig

\* routeConfig.requiresAuth && !this.appState.isLoggedIn
RedirectsToLogin_Never(pageName, loggedIn) == FALSE

RedirectsToLogin(pageName, loggedIn) ==
    NavigationConfig[pageName].requiresAuth /\ ~loggedIn

\* the route navigateTo(pageName) ends at, through its calls of itself
RECURSIVE RouteReached(_, _)
RouteReached(pageName, loggedIn) ==
    IF ~HasRouteConfig(pageName) THEN RouteReached(DEFAULT_ROUTE, loggedIn)
    ELSE IF RedirectsToLogin(pageName, loggedIn) THEN RouteReached(LOGIN_ROUTE, loggedIn)
    ELSE pageName

\* what the main content container shows
LoadingState == "loading"

ErrorContent == "error"

(***************************************************************************)
(* UserRepository (src/unnamed/part_006): the session under the key        *)
(* 'user-session'.  Times are in seconds.                                  *)
(***************************************************************************)
\* 8 * 60 * 60 * 1000 milliseconds
sessionLifetime == 8 * 60 * 60

\* 30 * 24 * 60 * 60 * 1000 milliseconds
rememberedLifetime == 30 * 24 * 60 * 60

SessionStarts == 1..MaxSessionStart

\* the instants of SpecSession: the starts, and from a second before to a
\* second after the expiry of a session saved at one of them
SessionInstants ==
    SessionStarts \cup
    {s + l + j : s \in SessionStarts, l \in {sessionLifetime, rememberedLifetime},
                 j \in {-1, 0, 1}}

Users == {[username |-> "alice", password |-> "secret"]}

\* JSON.stringify of { ...user, password: undefined }: without the password
WithoutPassword(user) == [username |-> user.username]

\* the item JSON.stringify(session) leaves, as JSON.parse gives it back
SessionItem(session) == [kind |-> "session", items |-> <<session>>]

IsSession(item) == item.kind = "session"

\* the session saveSession builds at the instant now
SessionOf(user, rememberMe, now) ==
    [user |-> WithoutPassword(user),
     timestamp |-> now,
     rememberMe |-> rememberMe,
     expiresAt |-> IF rememberMe THEN now + rememberedLifetime ELSE now + sessionLifetime]

\* the items another writer can leave under the key: no JSON, the JSON
\* null, and a JSON value without expiresAt
ForeignItems == {Unparsable, Null, NotAList}

\* Date.now() > session.expiresAt
SessionExpired_AtExpiry(now, session) == now >= session.expiresAt

SessionExpired(now, session) == now > session.expiresAt

(***************************************************************************)
(* UserService (src/unnamed/part_003) with its UserRepository and the      *)
(* auth-change callback of the AppController.  A user is the record of     *)
(* the data file, password included; `users` is looked up by username.     *)
(***************************************************************************)
\* data.users of user-info.json
UserFile == Users

\* this.currentUser = null
NoUser == [none |-> TRUE]

\* what the login form passes: a name and a password, either may be empty
EnteredNames == {"alice", "bob", ""}

EnteredPasswords == {"secret", "wrong", ""}

\* the users findByUsernameOrEmail finds in the users that were loaded
FoundUsers(users, usernameOrEmail) == {u \in users : u.username = usernameOrEmail}

\* localStorage.setItem(key, text)
TextItem(text) == [kind |-> "text", items |-> <<text>>]

\* localStorage.setItem('user-profile', JSON.stringify(user)): the own
\* properties of the user
ProfileItem(user) == [kind |-> "profile", items |-> <<user>>]

\* saveUserPreferences() of the AppController, whose language and theme
\* stay 'en' and 'dark'
saveUserPreferences(store, user) ==
    [k \in DOMAIN store |->
        IF k = "app-language" THEN TextItem("en")
        ELSE IF k = "app-theme" THEN TextItem("dark")
        ELSE IF k = "user-profile" /\ user # NoUser THEN ProfileItem(user)
        ELSE store[k]]

\* the stored item holds a password
HoldsPassword(item) ==
    \/ item.kind = "profile" /\ "password" \in DOMAIN item.items[1]
    \/ item.kind = "session" /\ "password" \in DOMAIN item.items[1].user

(***************************************************************************)
(* WorkoutManager (src/js/presentation/controllers/WorkoutManager.js): the *)
(* day columns of the page and the handlers of their items.                *)
(***************************************************************************)
\* the days whose columns the user works in; every weekday has a container
\* `${day}-exercises`
ViewDays == {"monday", "tuesday"}

\* this.dragData = null
NoDrag == [dragging |-> FALSE, sourceDay |-> "", sourceIndex |-> 0]

(***************************************************************************)
(* State.                                                                  *)
(***************************************************************************)
VARIABLES
    workoutData,   \* this.workoutData
    observers,     \* this.observers: a Set, in insertion order
    calls,         \* the observer calls made by the last operation, in order
    last           \* the last operation and what it returned; its arguments
                   \* are kept when it succeeded

VARIABLES
    clock,         \* Date.now(), in seconds
    localStorage,  \* window.localStorage: the item under each key
    repository,    \* a JsonRepository: its constructor arguments, cache, lastFetch
    requests,      \* the loadFromFile calls that wait for their fetch, oldest first
    reply,         \* the last step of the repository and how its call settled
    fetchLog       \* of the fetch that succeeded last: when its call began and
                   \* when it finished (0: none since the cache was cleared);
                   \* and whether clearCache ran after the last call began

VARIABLES
    measurement,   \* the arguments of calculateBMI: weight, height, unit
    bmiResult      \* what calculateBMI returned, NotCalculated before the call

calculatorVars == <<measurement, bmiResult>>

VARIABLES
    workout,       \* a Workout: exercises, targetMuscles, equipment, difficulty
    workoutCall    \* the last method called on it and whether it threw

entityVars == <<workout, workoutCall>>

VARIABLES
    cache,             \* this.cache: the files it has content for
    loadingPromises,   \* this.loadingPromises: "none" for a file without an
                       \* entry, else the state of the promise of fetchContent
    loads,             \* the calls of loadContent made so far, in order
    cachedSince        \* for each file: a fetch started with caching enabled
                       \* succeeded and the cache was not cleared or
                       \* invalidated for it since

loaderVars == <<cache, loadingPromises, loads, cachedSince>>

VARIABLES
    isLoggedIn,       \* this.appState.isLoggedIn
    mainContent,      \* innerHTML of the main content container: a content
                      \* file, a page name, LoadingState, ErrorContent or ""
    currentContent,   \* this.currentContent ("": null)
    currentPage,      \* this.currentPage ("": null)
    location,         \* the page of the last history.pushState ("": none)
    navigations       \* the calls of navigateTo made so far, in order

appVars == <<isLoggedIn, mainContent, currentContent, currentPage, location, navigations>>

VARIABLES
    sessionReply   \* the last session method: what it returned, and for
                   \* loadSession the clock and the item it found

sessionVars == <<sessionReply>>

VARIABLES
    currentUser,   \* this.currentUser of the UserService
    appUser,       \* this.appState.currentUser of the AppController
    logins         \* the calls of authenticate made so far, in order

authVars == <<currentUser, appUser, logins>>

managerVars == <<workoutData, observers, calls, last>>

repositoryVars == <<clock, localStorage, repository, requests, reply, fetchLog>>

VARIABLES
    rendered,   \* the .exercise-item elements of each day's container, in
                \* document order: the entry each was made from; the k-th
                \* carries data-exercise-index k - 1
    dragData    \* this.dragData of the WorkoutManager

viewVars == <<rendered, dragData>>

\* the state outside each component
outsideManager == <<repositoryVars, calculatorVars, entityVars, loaderVars, appVars, sessionVars, authVars, viewVars>>

outsideRepository == <<managerVars, calculatorVars, entityVars, loaderVars, appVars, sessionVars, authVars, viewVars>>

outsideCalculator == <<managerVars, repositoryVars, entityVars, loaderVars, appVars, sessionVars, authVars, viewVars>>

outsideEntity == <<managerVars, repositoryVars, calculatorVars, loaderVars, appVars, sessionVars, authVars, viewVars>>

outsideLoader == <<managerVars, repositoryVars, calculatorVars, entityVars, appVars, sessionVars, authVars, viewVars>>

outsideApp == <<managerVars, repositoryVars, calculatorVars, entityVars, sessionVars, authVars, viewVars>>

outsideSession == <<managerVars, calculatorVars, entityVars, loaderVars, appVars, authVars, viewVars>>

outsideAuth == <<managerVars, calculatorVars, entityVars, loaderVars, sessionVars, viewVars>>

outsideView == <<repositoryVars, calculatorVars, entityVars, loaderVars, appVars, sessionVars, authVars>>

vars == <<managerVars, repositoryVars, calculatorVars, entityVars, loaderVars, appVars, sessionVars, authVars, viewVars>>

\* end of the state outside each component

Result(op, success) ==
    [op |-> op, success |-> success, threw |-> FALSE,
     day |-> "", index |-> 0, toDay |-> "", toIndex |-> 0]

\* what a step of the repository leaves in `reply`: the step, the method
\* that was called, how its promise settled ("resolved", "rejected", or
\* "pending" while it waits for its fetch), the value or error, and whether
\* the call fetched the file
Reply(step, caller, settled, value, fetched) ==
    [step |-> step, caller |-> caller, settled |-> settled, value |-> value,
     fetched |-> fetched]

\* new WorkoutDataManager()
ManagerConstructed ==
    /\ workoutData = createEmptyWorkout(1)
    /\ observers = << >>
    /\ calls = << >>
    /\ last = Result("constructor", TRUE)

\* new JsonRepository(dataFileName, entityClass, localStorageKey), in a
\* page whose storage holds `stored` under the key of the user's workouts
RepositoryConstructed(repo, stored) ==
    /\ clock = 1
    /\ localStorage = [k \in StorageKeys |-> IF k = "user-workouts" THEN stored ELSE Absent]
    /\ repository = [dataFileName |-> repo.dataFileName,
                     localStorageKey |-> repo.localStorageKey,
                     cache |-> NoEntry,
                     lastFetch |-> 0]
    /\ requests = << >>
    /\ reply = Reply("constructor", "", "resolved", NullValue, FALSE)
    /\ fetchLog = [began |-> 0, finished |-> 0, cleared |-> FALSE]

RepositoryIdle == RepositoryConstructed(ExerciseRepository, Absent)

CalculatorIdle ==
    /\ measurement = [weight |-> 70, height |-> 175, unit |-> "metric"]
    /\ bmiResult = NotCalculated

WorkoutIdle ==
    /\ workout = NewWorkout
    /\ workoutCall = [op |-> "constructor", threw |-> FALSE]

LoaderConstructed ==
    /\ cache = {}
    /\ loadingPromises = [f \in ContentFiles |-> "none"]
    /\ loads = << >>
    /\ cachedSince = [f \in ContentFiles |-> FALSE]

AppConstructed ==
    /\ isLoggedIn = FALSE
    /\ mainContent = ""
    /\ currentContent = ""
    /\ currentPage = ""
    /\ location = ""
    /\ navigations = << >>

SessionIdle ==
    sessionReply = [op |-> "constructor", value |-> Null, now |-> 0, found |-> Absent]

AuthConstructed ==
    /\ currentUser = NoUser
    /\ appUser = NoUser
    /\ logins = << >>

\* new WorkoutManager(): the page shows no entries yet
ViewConstructed ==
    /\ rendered = [d \in ViewDays |-> << >>]
    /\ dragData = NoDrag

\* the components a specification leaves as they are constructed
OutsideManagerIdle ==
    /\ RepositoryIdle
    /\ CalculatorIdle
    /\ WorkoutIdle
    /\ LoaderConstructed
    /\ AppConstructed
    /\ SessionIdle
    /\ AuthConstructed
    /\ ViewConstructed

OutsideRepositoryIdle ==
    /\ ManagerConstructed
    /\ CalculatorIdle
    /\ WorkoutIdle
    /\ LoaderConstructed
    /\ AppConstructed
    /\ SessionIdle
    /\ AuthConstructed
    /\ ViewConstructed

OutsideCalculatorIdle ==
    /\ ManagerConstructed
    /\ RepositoryIdle
    /\ WorkoutIdle
    /\ LoaderConstructed
    /\ AppConstructed
    /\ SessionIdle
    /\ AuthConstructed
    /\ ViewConstructed

OutsideEntityIdle ==
    /\ ManagerConstructed
    /\ RepositoryIdle
    /\ CalculatorIdle
    /\ LoaderConstructed
    /\ AppConstructed
    /\ SessionIdle
    /\ AuthConstructed
    /\ ViewConstructed

OutsideLoaderIdle ==
    /\ ManagerConstructed
    /\ RepositoryIdle
    /\ CalculatorIdle
    /\ WorkoutIdle
    /\ AppConstructed
    /\ SessionIdle
    /\ AuthConstructed
    /\ ViewConstructed

OutsideAppIdle ==
    /\ ManagerConstructed
    /\ RepositoryIdle
    /\ CalculatorIdle
    /\ WorkoutIdle
    /\ SessionIdle
    /\ AuthConstructed
    /\ ViewConstructed

OutsideSessionIdle ==
    /\ ManagerConstructed
    /\ CalculatorIdle
    /\ WorkoutIdle
    /\ LoaderConstructed
    /\ AppConstructed
    /\ AuthConstructed
    /\ ViewConstructed

OutsideAuthIdle ==
    /\ ManagerConstructed
    /\ CalculatorIdle
    /\ WorkoutIdle
    /\ LoaderConstructed
    /\ SessionIdle
    /\ ViewConstructed

OutsideViewIdle ==
    /\ RepositoryIdle
    /\ CalculatorIdle
    /\ WorkoutIdle
    /\ LoaderConstructed
    /\ AppConstructed
    /\ SessionIdle
    /\ AuthConstructed

\* end of the components a specification leaves as they are constructed

Init ==
    /\ ManagerConstructed
    /\ OutsideManagerIdle

(***************************************************************************)
(* Observers.                                                              *)
(***************************************************************************)
Elements(s) == {s[i] : i \in 1..Len(s)}

\* Set.prototype.add keeps the place of a member that is added again
SetAdd(s, x) == IF x \in Elements(s) THEN s ELSE Append(s, x)

SetDelete(s, x) == SelectSeq(s, LAMBDA y : y # x)

\* notifyObservers calling the observers last to first
notifyObservers_Reversed(obs, event, wd) ==
    [calls |-> [i \in 1..Len(obs) |->
                   [observer |-> obs[Len(obs) + 1 - i], event |-> event, seen |-> wd,
                    threw |-> Throws(obs[Len(obs) + 1 - i])]],
     escaped |-> FALSE]

\* notifyObservers without the try/catch around the call: the first
\* exception ends the loop and escapes
notifyObservers_NoCatch(obs, event, wd) ==
    LET throwers == {i \in 1..Len(obs) : Throws(obs[i])}
        reached == IF throwers = {} THEN Len(obs)
                   ELSE CHOOSE i \in throwers : \A k \in throwers : i <= k
    IN [calls |-> [i \in 1..reached |->
                      [observer |-> obs[i], event |-> event, seen |-> wd, threw |-> Throws(obs[i])]],
        escaped |-> throwers # {}]

\* notifyObservers: one call per observer, in Set order; an exception thrown
\* by an observer is caught inside the loop, so none escapes
notifyObservers(obs, event, wd) ==
    [calls |-> [i \in 1..Len(obs) |->
                   [observer |-> obs[i], event |-> event, seen |-> wd, threw |-> Throws(obs[i])]],
     escaped |-> FALSE]

addObserver(observer) ==
    /\ observers' = IF observer \in Observers THEN SetAdd(observers, observer) ELSE observers
    /\ calls' = << >>
    /\ last' = Result("addObserver", TRUE)
    /\ UNCHANGED workoutData

removeObserver(observer) ==
    /\ observers' = SetDelete(observers, observer)
    /\ calls' = << >>
    /\ last' = Result("removeObserver", TRUE)
    /\ UNCHANGED workoutData

(***************************************************************************)
(* Operations on the entries.                                              *)
(***************************************************************************)
\* days[day] && days[day][index]: entries are objects, hence truthy
HasEntry(days, day, index) ==
    /\ IsArray(days[day])
    /\ index < Len(days[day].items)

\* Object.assign(target, updates)
Assign(target, updates) ==
    [f \in DOMAIN target |-> IF f \in updates.keys THEN updates.vals[f] ELSE target[f]]

\* { id: this.generateId(), ...exercise, type: exercise.type || 'exercise' }
WithMetadata(exercise, freshId) ==
    [exercise EXCEPT !.id = IF exercise.id = 0 THEN freshId ELSE exercise.id,
                     !.type = IF exercise.type = "" THEN "exercise" ELSE exercise.type]

\* addExerciseToDay with unshift in place of push
PushEntry_Unshift(days, day, entry) ==
    [days EXCEPT ![day] = List(<<entry>> \o days[day].items)]

\* the days after addExerciseToDay's push
PushEntry(days, day, entry) ==
    [days EXCEPT ![day] = List(Append(days[day].items, entry))]

addExerciseToDay(day, exercise) ==
    LET days0 == IF ~Truthy(workoutData.days[day])
                 THEN [workoutData.days EXCEPT ![day] = List(<< >>)]
                 ELSE workoutData.days
        entry == WithMetadata(exercise.obj, generateId(UsedIds(workoutData.days, workoutData.id)))
        wd1 == [workoutData EXCEPT !.days = PushEntry(days0, day, entry)]
        n == notifyObservers(observers, "exerciseAdded", wd1)
    IN /\ IF exercise.null \/ ~IsArray(days0[day])
          THEN \* exercise.type or push throws a TypeError, which is caught
               /\ workoutData' = [workoutData EXCEPT !.days = days0]
               /\ calls' = << >>
               /\ last' = Result("addExerciseToDay", FALSE)
          ELSE /\ workoutData' = wd1
               /\ calls' = n.calls
               /\ last' = IF n.escaped THEN Result("addExerciseToDay", FALSE)
                          ELSE [Result("addExerciseToDay", TRUE) EXCEPT !.day = day]
       /\ UNCHANGED observers

updateExerciseInDay(day, exerciseIndex, updates) ==
    LET items == workoutData.days[day].items
        exercise == Assign(items[exerciseIndex + 1], updates)
        wd1 == [workoutData EXCEPT !.days[day] = List([items EXCEPT ![exerciseIndex + 1] = exercise])]
        n == notifyObservers(observers, "exerciseUpdated", wd1)
    IN /\ IF ~HasEntry(workoutData.days, day, exerciseIndex)
          THEN /\ UNCHANGED workoutData
               /\ calls' = << >>
               /\ last' = Result("updateExerciseInDay", FALSE)
          ELSE /\ workoutData' = wd1
               /\ calls' = n.calls
               /\ last' = IF n.escaped THEN Result("updateExerciseInDay", FALSE)
                          ELSE [Result("updateExerciseInDay", TRUE) EXCEPT !.day = day, !.index = exerciseIndex]
       /\ UNCHANGED observers

\* removeExerciseFromDay that takes a missing entry for removed already, as
\* clearDay takes a missing day
removeExerciseFromDay_Lenient(day, exerciseIndex) ==
    LET wd1 == [workoutData EXCEPT !.days[day] = List(SpliceOut(workoutData.days[day].items, exerciseIndex))]
        n == notifyObservers(observers, "exerciseRemoved", wd1)
    IN /\ IF ~HasEntry(workoutData.days, day, exerciseIndex)
          THEN /\ UNCHANGED workoutData
               /\ calls' = << >>
               /\ last' = Result("removeExerciseFromDay", TRUE)
          ELSE /\ workoutData' = wd1
               /\ calls' = n.calls
               /\ last' = [Result("removeExerciseFromDay", TRUE) EXCEPT !.day = day, !.index = exerciseIndex]
       /\ UNCHANGED observers

\* the days after removeExerciseFromDay's splice
RemoveEntry(days, day, index) ==
    [days EXCEPT ![day] = List(SpliceOut(days[day].items, index))]

removeExerciseFromDay(day, exerciseIndex) ==
    LET wd1 == [workoutData EXCEPT !.days = RemoveEntry(workoutData.days, day, exerciseIndex)]
        n == notifyObservers(observers, "exerciseRemoved", wd1)
    IN /\ IF ~HasEntry(workoutData.days, day, exerciseIndex)
          THEN /\ UNCHANGED workoutData
               /\ calls' = << >>
               /\ last' = Result("removeExerciseFromDay", FALSE)
          ELSE /\ workoutData' = wd1
               /\ calls' = n.calls
               /\ last' = IF n.escaped THEN Result("removeExerciseFromDay", FALSE)
                          ELSE [Result("removeExerciseFromDay", TRUE) EXCEPT !.day = day, !.index = exerciseIndex]
       /\ UNCHANGED observers

\* the insert index taken one too far
InsertIndex_OffByOne(days, toDay, toIndex) == Min(toIndex + 1, Len(days[toDay].items))

\* Math.min(toIndex, this.workoutData.days[toDay].length), read after the
\* entry has left its source list
InsertIndex(days, toDay, toIndex) == Min(toIndex, Len(days[toDay].items))

\* moveExercise that, within one day, exchanges the two entries
MoveEntry_Swap(days, fromDay, fromIndex, toDay, toIndex) ==
    LET days0 == IF ~Truthy(days[toDay]) THEN [days EXCEPT ![toDay] = List(<< >>)] ELSE days
        items == days0[fromDay].items
        exercise == items[fromIndex + 1]
        days1 == [days0 EXCEPT ![fromDay] = List(SpliceOut(items, fromIndex))]
        target == Min(toIndex, Len(items) - 1)
    IN IF fromDay = toDay
       THEN [days0 EXCEPT ![fromDay] =
               List([items EXCEPT ![fromIndex + 1] = items[target + 1], ![target + 1] = exercise])]
       ELSE [days1 EXCEPT ![toDay] =
               List(SpliceIn(days1[toDay].items, Min(toIndex, Len(days1[toDay].items)), exercise))]

\* the days after moveExercise's two splices
MoveEntry(days, fromDay, fromIndex, toDay, toIndex) ==
    LET days0 == IF ~Truthy(days[toDay]) THEN [days EXCEPT ![toDay] = List(<< >>)] ELSE days
        exercise == days0[fromDay].items[fromIndex + 1]
        days1 == [days0 EXCEPT ![fromDay] = List(SpliceOut(days0[fromDay].items, fromIndex))]
    IN [days1 EXCEPT ![toDay] =
           List(SpliceIn(days1[toDay].items, InsertIndex(days1, toDay, toIndex), exercise))]

moveExercise(fromDay, fromIndex, toDay, toIndex) ==
    LET wd1 == [workoutData EXCEPT !.days = MoveEntry(workoutData.days, fromDay, fromIndex, toDay, toIndex)]
        n == notifyObservers(observers, "exerciseMoved", wd1)
    IN /\ IF ~HasEntry(workoutData.days, fromDay, fromIndex)
          THEN /\ UNCHANGED workoutData
               /\ calls' = << >>
               /\ last' = Result("moveExercise", FALSE)
          ELSE /\ workoutData' = wd1
               /\ calls' = n.calls
               /\ last' = IF n.escaped THEN Result("moveExercise", FALSE)
                          ELSE [Result("moveExercise", TRUE) EXCEPT
                                   !.day = fromDay, !.index = fromIndex,
                                   !.toDay = toDay, !.toIndex = toIndex]
       /\ UNCHANGED observers

\* clearDay that notifies before it empties the day
clearDay_NotifyFirst(day) ==
    LET wd1 == [workoutData EXCEPT !.days[day] = List(<< >>)]
        n == notifyObservers(observers, "dayCleared", workoutData)
    IN /\ IF ~Truthy(workoutData.days[day])
          THEN /\ UNCHANGED workoutData
               /\ calls' = << >>
               /\ last' = [Result("clearDay", TRUE) EXCEPT !.day = day]
          ELSE /\ workoutData' = wd1
               /\ calls' = n.calls
               /\ last' = [Result("clearDay", ~n.escaped) EXCEPT !.day = day, !.threw = n.escaped]
       /\ UNCHANGED observers

\* the days after clearDay's assignment
EmptyDay(days, day) == [days EXCEPT ![day] = List(<< >>)]

clearDay(day) ==
    LET wd1 == [workoutData EXCEPT !.days = EmptyDay(workoutData.days, day)]
        n == notifyObservers(observers, "dayCleared", wd1)
    IN /\ IF ~Truthy(workoutData.days[day])
          THEN /\ UNCHANGED workoutData
               /\ calls' = << >>
               /\ last' = [Result("clearDay", TRUE) EXCEPT !.day = day]
          ELSE /\ workoutData' = wd1
               /\ calls' = n.calls
               /\ last' = [Result("clearDay", ~n.escaped) EXCEPT !.day = day, !.threw = n.escaped]
       /\ UNCHANGED observers

(***************************************************************************)
(* Operations on the whole aggregate.                                      *)
(***************************************************************************)
\* updateWorkoutMetadata with id and days among the fields it applies
allowedFields_AndIdentity == {"name", "description", "difficulty", "tags", "id", "days"}

allowedFields == {"name", "description", "difficulty", "tags"}

updateWorkoutMetadata(updates) ==
    LET validUpdates == [keys |-> updates.keys \cap allowedFields, vals |-> updates.vals]
        wd1 == Assign(workoutData, validUpdates)
        n == notifyObservers(observers, "workoutMetadataUpdated", wd1)
    IN /\ workoutData' = wd1
       /\ calls' = n.calls
       /\ last' = [Result("updateWorkoutMetadata", ~n.escaped) EXCEPT !.threw = n.escaped]
       /\ UNCHANGED observers

resetWorkout ==
    LET wd1 == createEmptyWorkout(generateId({}))
        n == notifyObservers(observers, "workoutReset", wd1)
    IN /\ workoutData' = wd1
       /\ calls' = n.calls
       /\ last' = [Result("resetWorkout", ~n.escaped) EXCEPT !.threw = n.escaped]
       /\ UNCHANGED observers

\* loadWorkoutData(data), recorded as operation op
Load(data, op) ==
    LET processedData == normalizeWorkoutData(data)
        wd1 == FromDocument(processedData)
        n == notifyObservers(observers, "workoutLoaded", wd1)
    IN /\ IF NormalizeThrows(data) \/ validateWorkoutData(processedData) # {}
          THEN /\ UNCHANGED workoutData
               /\ calls' = << >>
               /\ last' = Result(op, FALSE)
          ELSE /\ workoutData' = wd1
               /\ calls' = n.calls
               /\ last' = Result(op, ~n.escaped)
       /\ UNCHANGED observers

loadWorkoutData(data) == Load(data, "loadWorkoutData")

\* the file written by exportToJSON is read back: JSON.parse, then
\* loadWorkoutData
ImportExported == Load(exportToJSON(workoutData), "importExported")

(***************************************************************************)
(* JsonRepository: reading the data file.  A call of loadFromFile runs up  *)
(* to its `await fetch`; the rest of it runs when the fetch settles.       *)
(***************************************************************************)
\* getUserWorkouts(): the stored collection, or [] when the storage holds
\* no array
getUserWorkouts(store, key) ==
    LET data == loadFromStorage(store, key)
    IN IF IsArray(data) THEN data.items ELSE << >>

\* getById(1) on the entities: the first with that id, or null
getById(entities, id) ==
    LET found == SelectSeq(entities, LAMBDA e : e.id = id)
    IN IF found = << >> THEN NullValue ELSE [kind |-> "entity", items |-> <<found[1]>>]

\* what each read method resolves with when loadFromFile gave `data`;
\* `held` is what getUserWorkouts() returned when the method was called
ReadResult(caller, data, held) ==
    CASE caller = "loadFromFile" -> Data(data)
      [] caller \in {"getAllExercises", "searchExercises", "getPredefinedWorkouts"} ->
            List(data.entities)
      [] caller = "getExercise" -> getById(data.entities, 1)
      [] caller = "getAllWorkouts" -> List(data.entities \o held)

\* the error loadFromFile rejects with
FetchError(outcome) ==
    CASE outcome = "notOk" -> ErrorValue("Failed to load the file")
      [] outcome = "failed" -> ErrorValue("TypeError: Failed to fetch")
      [] outcome = "badJson" -> ErrorValue("SyntaxError")

\* how each read method settles when loadFromFile rejects with `error`: the
\* catch blocks of the services
ReadFailure(caller, error) ==
    CASE caller = "loadFromFile" -> [settled |-> "rejected", value |-> error]
      [] caller = "getAllExercises" ->
            [settled |-> "rejected", value |-> ErrorValue("Failed to load exercises")]
      [] caller = "getAllWorkouts" ->
            [settled |-> "rejected", value |-> ErrorValue("Failed to load workouts")]
      [] caller = "getExercise" -> [settled |-> "resolved", value |-> NullValue]
      [] caller \in {"searchExercises", "getPredefinedWorkouts"} ->
            [settled |-> "resolved", value |-> List(<< >>)]

\* the cache answering up to and including the instant its time-to-live ends
CacheIsFresh_Inclusive(repo, now) ==
    /\ repo.cache.has
    /\ repo.lastFetch # 0
    /\ now - repo.lastFetch <= cacheExpiry

\* the condition under which loadFromFile answers from its cache
CacheIsFresh(repo, now) ==
    /\ repo.cache.has
    /\ repo.lastFetch # 0
    /\ now - repo.lastFetch < cacheExpiry

\* what loadFromFile stores when its fetch has succeeded
StoreFetched(repo, data, now) ==
    [repo EXCEPT !.cache = Cached(data), !.lastFetch = now]

\* a read method is called: loadFromFile answers from the cache or starts a
\* fetch and waits for it
loadFromFile(caller) ==
    LET now == clock
        held == IF caller = "getAllWorkouts"
                THEN getUserWorkouts(localStorage, repository.localStorageKey)
                ELSE << >>
    IN /\ IF CacheIsFresh(repository, now)
          THEN /\ reply' = Reply("call", caller, "resolved",
                                 ReadResult(caller, repository.cache.data, held), FALSE)
               /\ UNCHANGED requests
          ELSE /\ requests' = Append(requests, [caller |-> caller, now |-> now, held |-> held])
               /\ reply' = Reply("call", caller, "pending", NullValue, TRUE)
       /\ fetchLog' = [fetchLog EXCEPT !.cleared = FALSE]
       /\ UNCHANGED <<clock, localStorage, repository>>

\* the fetch of the i-th waiting call settles, and the call runs to its end
fetchSettles(i, outcome) ==
    /\ i <= Len(requests)
    /\ LET r == requests[i]
       IN /\ requests' = SpliceOut(requests, i - 1)
          /\ IF outcome = "ok"
             THEN /\ repository' = StoreFetched(repository, FileData, r.now)
                  /\ fetchLog' = [fetchLog EXCEPT !.began = r.now, !.finished = clock]
                  /\ reply' = Reply("settle", r.caller, "resolved",
                                    ReadResult(r.caller, FileData, r.held), TRUE)
             ELSE /\ reply' = Reply("settle", r.caller,
                                    ReadFailure(r.caller, FetchError(outcome)).settled,
                                    ReadFailure(r.caller, FetchError(outcome)).value, TRUE)
                  /\ UNCHANGED <<repository, fetchLog>>
    /\ UNCHANGED <<clock, localStorage>>

clearCache ==
    /\ repository' = [repository EXCEPT !.cache = NoEntry, !.lastFetch = 0]
    /\ fetchLog' = [began |-> 0, finished |-> 0, cleared |-> TRUE]
    /\ reply' = Reply("clearCache", "clearCache", "resolved", NullValue, FALSE)
    /\ UNCHANGED <<clock, localStorage, requests>>

\* time passes
Tick(t) ==
    /\ t > clock
    /\ clock' = t
    /\ UNCHANGED <<localStorage, repository, requests, reply, fetchLog>>

(***************************************************************************)
(* JsonRepository: create, update and delete.  None of them awaits, so     *)
(* each is one step.                                                       *)
(***************************************************************************)
BooleanValue(b) == [kind |-> "boolean", items |-> <<b>>]

EntityValue(e) == [kind |-> "entity", items |-> <<e>>]

\* { ...entity, ...updates }: id 0 and name "" are properties `updates`
\* does not have
Spread(entity, updates) ==
    [id |-> IF updates.id # 0 THEN updates.id ELSE entity.id,
     name |-> IF updates.name # "" THEN updates.name ELSE entity.name]

\* data.findIndex(item => item.id === id), counted from 1; 0 when there is
\* no such item
findIndex(data, id) ==
    LET hits == {k \in 1..Len(data) : data[k].id = id}
    IN IF hits = {} THEN 0 ELSE CHOOSE k \in hits : \A h \in hits : k <= h

\* the array create() pushes to: the stored array, [] in every other case
StoredArray(store, key) ==
    LET data == loadFromStorage(store, key)
    IN IF IsArray(data) THEN data.items ELSE << >>

\* the collection written under the key of the session
WriteCollection_OtherKey(store, key, data) == [store EXCEPT !["user-session"] = List(data)]

\* where create() and the others write: the repository's own key
WriteCollection(store, key, data) == saveToStorage(store, key, data)

create(entity) ==
    /\ IF repository.localStorageKey = ""
       THEN /\ reply' = Reply("create", "create", "rejected",
                              ErrorValue("Create operation requires localStorage key"), FALSE)
            /\ UNCHANGED localStorage
       ELSE LET data == StoredArray(localStorage, repository.localStorageKey)
                newEntity == IF entity.id # 0 THEN entity
                             ELSE [entity EXCEPT !.id = JsonRepository_generateId(data)]
            IN /\ localStorage' = WriteCollection(localStorage, repository.localStorageKey,
                                                  Append(data, newEntity))
               /\ reply' = Reply("create", "create", "resolved", EntityValue(newEntity), FALSE)
    /\ UNCHANGED <<clock, repository, requests, fetchLog>>

\* what update() does to the storage and what it returns
UpdateOutcome(store, key, id, updates) ==
    IF key = ""
    THEN [store |-> store, settled |-> "rejected",
          value |-> ErrorValue("Update operation requires localStorage key")]
    ELSE LET loaded == loadFromStorage(store, key)
             data == IF loaded.kind = "null" THEN << >> ELSE loaded.items
             index == findIndex(data, id)
         IN IF ~IsArray(loaded) /\ loaded.kind # "null"
            THEN [store |-> store, settled |-> "resolved", value |-> NullValue]
            ELSE IF index = 0
            THEN [store |-> store, settled |-> "resolved", value |-> NullValue]
            ELSE [store |-> WriteCollection(store, key,
                               [data EXCEPT ![index] = Spread(data[index], updates)]),
                  settled |-> "resolved",
                  value |-> EntityValue(Spread(data[index], updates))]

update(id, updates) ==
    LET outcome == UpdateOutcome(localStorage, repository.localStorageKey, id, updates)
    IN /\ localStorage' = outcome.store
       /\ reply' = Reply("update", "update", outcome.settled, outcome.value, FALSE)
       /\ UNCHANGED <<clock, repository, requests, fetchLog>>

delete(id) ==
    /\ IF repository.localStorageKey = ""
       THEN /\ reply' = Reply("delete", "delete", "rejected",
                              ErrorValue("Delete operation requires localStorage key"), FALSE)
            /\ UNCHANGED localStorage
       ELSE LET loaded == loadFromStorage(localStorage, repository.localStorageKey)
                data == IF loaded.kind = "null" THEN << >> ELSE loaded.items
                kept == SelectSeq(data, LAMBDA item : item.id # id)
            IN IF ~IsArray(loaded) /\ loaded.kind # "null"
               THEN /\ reply' = Reply("delete", "delete", "resolved", BooleanValue(FALSE), FALSE)
                    /\ UNCHANGED localStorage
               ELSE IF Len(kept) # Len(data)
               THEN /\ localStorage' =
                          WriteCollection(localStorage, repository.localStorageKey, kept)
                    /\ reply' = Reply("delete", "delete", "resolved", BooleanValue(TRUE), FALSE)
               ELSE /\ reply' = Reply("delete", "delete", "resolved", BooleanValue(FALSE), FALSE)
                    /\ UNCHANGED localStorage
    /\ UNCHANGED <<clock, repository, requests, fetchLog>>

(***************************************************************************)
(* Workout: the methods that change the list of exercises.                 *)
(***************************************************************************)
addExercise(exercise) ==
    IF exercise.null
    THEN /\ workoutCall' = [op |-> "addExercise", threw |-> TRUE]
         /\ UNCHANGED workout
    ELSE /\ workout' = Workout_updateWorkoutMetadata(
                           [workout EXCEPT !.exercises = Append(@, exercise.obj)])
         /\ workoutCall' = [op |-> "addExercise", threw |-> FALSE]

removeExercise(index) ==
    IF index < 0 \/ index >= Len(workout.exercises)
    THEN /\ workoutCall' = [op |-> "removeExercise", threw |-> TRUE]
         /\ UNCHANGED workout
    ELSE /\ workout' = Workout_updateWorkoutMetadata(
                           [workout EXCEPT !.exercises = SpliceOut(@, index)])
         /\ workoutCall' = [op |-> "removeExercise", threw |-> FALSE]

updateExercise(index, updates) ==
    IF index < 0 \/ index >= Len(workout.exercises)
    THEN /\ workoutCall' = [op |-> "updateExercise", threw |-> TRUE]
         /\ UNCHANGED workout
    ELSE /\ workout' = [workout EXCEPT !.exercises[index + 1] = SpreadExercise(@, updates)]
         /\ workoutCall' = [op |-> "updateExercise", threw |-> FALSE]

reorderExercises(fromIndex, toIndex) ==
    IF \/ fromIndex < 0 \/ fromIndex >= Len(workout.exercises)
       \/ toIndex < 0 \/ toIndex >= Len(workout.exercises)
    THEN /\ workoutCall' = [op |-> "reorderExercises", threw |-> TRUE]
         /\ UNCHANGED workout
    ELSE /\ workout' = [workout EXCEPT !.exercises =
                           SpliceIn(SpliceOut(@, fromIndex), toIndex, @[fromIndex + 1])]
         /\ workoutCall' = [op |-> "reorderExercises", threw |-> FALSE]

(***************************************************************************)
(* ContentLoader.  A call runs up to its first await in one step; when     *)
(* the promise of fetchContent settles, the continuations of the call      *)
(* that created it and of the calls that await it run one after the        *)
(* other, the creator's first, before any other task.                      *)
(***************************************************************************)
loadContent(a) ==
    LET found == [file |-> a.file, useCache |-> a.useCache, via |-> a.via,
                  inProgress |-> loadingPromises[a.file] = "pending",
                  sinceSuccess |-> cachedSince[a.file]]
        timer == IF a.via = "loadContentWithTimeout" THEN "armed" ELSE "none"
        Settled(role, result) ==
            found @@ [role |-> role, inner |-> result, timer |-> timer,
                      first |-> "load", settled |-> "resolved", result |-> result]
        Pending(role) ==
            found @@ [role |-> role, inner |-> "pending", timer |-> timer,
                      first |-> "none", settled |-> "pending", result |-> "none"]
    IN IF CacheHit(cache, a.file, a.useCache)
       THEN /\ loads' = Append(loads, Settled("cached", "success"))
            /\ UNCHANGED <<cache, loadingPromises, cachedSince>>
       ELSE IF HasLoadingPromise(loadingPromises, a.file)
       THEN /\ loads' = Append(loads,
                   IF loadingPromises[a.file] = "pending" THEN Pending("waiter")
                   ELSE Settled("waiter", "failure"))
            /\ UNCHANGED <<cache, loadingPromises, cachedSince>>
       ELSE /\ loads' = Append(loads, Pending("creator"))
            /\ loadingPromises' = [loadingPromises EXCEPT ![a.file] = "pending"]
            /\ UNCHANGED <<cache, cachedSince>>

\* the load that created the promise of the fetch of file that is under way
Creators(file) ==
    {i \in 1..Len(loads) :
        loads[i].file = file /\ loads[i].role = "creator" /\ loads[i].inner = "pending"}

\* the promise of fetchContent(file) settles: fulfilled if ok, else rejected
fetchContent(file, ok) ==
    /\ loadingPromises[file] = "pending"
    /\ LET result == IF ok THEN "success" ELSE "failure"
           caching == \E i \in Creators(file) : loads[i].useCache
           Finish(l) ==
              IF l.file = file /\ l.inner = "pending"
              THEN IF l.settled = "pending"
                   THEN [l EXCEPT !.inner = result, !.first = "load",
                                  !.settled = "resolved", !.result = result]
                   ELSE [l EXCEPT !.inner = result]
              ELSE l
       IN /\ loads' = [i \in 1..Len(loads) |-> Finish(loads[i])]
          /\ loadingPromises' =
                [loadingPromises EXCEPT ![file] = IF ok THEN "none" ELSE "rejected"]
          /\ cache' = IF ok /\ caching THEN cache \cup {file} ELSE cache
          /\ cachedSince' = IF ok /\ caching THEN [cachedSince EXCEPT ![file] = TRUE]
                            ELSE cachedSince

\* the timer of load i of loadContentWithTimeout fires before the load has
\* finished: the race is rejected, and the catch makes a result of it.  A
\* timer that fires after the load finished rejects a promise that is
\* settled, which changes nothing.
TimerFires(i) ==
    /\ i \in 1..Len(loads)
    /\ loads[i].timer = "armed"
    /\ loads[i].settled = "pending"
    /\ loads' = [loads EXCEPT ![i] =
          [@ EXCEPT !.timer = "fired", !.first = "timer",
                    !.settled = TimeoutSettlement.settled,
                    !.result = TimeoutSettlement.result]]
    /\ UNCHANGED <<cache, loadingPromises, cachedSince>>

ContentLoader_clearCache ==
    /\ cache' = {}
    /\ cachedSince' = [f \in ContentFiles |-> FALSE]
    /\ UNCHANGED <<loadingPromises, loads>>

invalidateCache(file) ==
    /\ cache' = cache \ {file}
    /\ cachedSince' = [cachedSince EXCEPT ![file] = FALSE]
    /\ UNCHANGED <<loadingPromises, loads>>

(***************************************************************************)
(* AppController.  navigateTo runs up to the await of the fetch in one     *)
(* step; loadAndInject and loadContentPage continue when the fetch         *)
(* settles.  The content files have no include directives.                 *)
(***************************************************************************)
\* the callback of userService.onAuthChange
onAuthChange(loggedIn) ==
    /\ isLoggedIn' = loggedIn
    /\ UNCHANGED <<mainContent, currentContent, currentPage, location, navigations>>
    /\ UNCHANGED loaderVars

navigateTo(pageName, updateHistory) ==
    LET page == RouteReached(pageName, isLoggedIn)
        routeConfig == NavigationConfig[page]
        call == [requested |-> pageName, loggedIn |-> isLoggedIn, page |-> page,
                 pushed |-> IF updateHistory THEN page ELSE ""]
    IN /\ location' = IF updateHistory THEN page ELSE location
       /\ UNCHANGED isLoggedIn
       /\ IF routeConfig.type = RouteTypes.CONTENT
          THEN /\ loadContent([file |-> routeConfig.path, useCache |-> TRUE,
                               via |-> "loadAndInject"])
               /\ LET load == loads'[Len(loads')]
                  IN /\ currentPage' = ""
                     /\ currentContent' = IF load.result = "success" THEN page ELSE ""
                     /\ mainContent' = IF load.result = "success" THEN load.file
                                       ELSE IF load.result = "failure" THEN ErrorContent
                                       ELSE LoadingState
                     /\ navigations' = Append(navigations,
                           call @@ [load |-> Len(loads'),
                                    injected |-> IF load.result = "success" THEN load.file
                                                 ELSE "",
                                    done |-> load.settled = "resolved"])
          ELSE /\ currentPage' = IF routeConfig.type = RouteTypes.COMPONENT THEN page ELSE ""
               /\ currentContent' = ""
               /\ mainContent' = page
               /\ navigations' = Append(navigations,
                     call @@ [load |-> 0, injected |-> "", done |-> TRUE])
               /\ UNCHANGED loaderVars

\* the navigations that await the fetch of file, in the order of their calls
Awaiting(file) ==
    {n \in 1..Len(navigations) :
        ~navigations[n].done /\ loads[navigations[n].load].file = file}

\* the fetch of file settles; the navigations that await it continue in order
ContentArrives(file, ok) ==
    /\ fetchContent(file, ok)
    /\ navigations' = [n \in 1..Len(navigations) |->
          IF n \in Awaiting(file)
          THEN [navigations[n] EXCEPT !.done = TRUE,
                                      !.injected = IF ok THEN file ELSE ""]
          ELSE navigations[n]]
    /\ IF Awaiting(file) = {} THEN UNCHANGED <<mainContent, currentContent>>
       ELSE LET lastOne == CHOOSE n \in Awaiting(file) : \A m \in Awaiting(file) : m <= n
            IN /\ mainContent' = IF ok THEN file ELSE ErrorContent
               /\ currentContent' = IF ok THEN navigations[lastOne].page
                                    ELSE currentContent
    /\ UNCHANGED <<isLoggedIn, currentPage, location>>

(***************************************************************************)
(* UserRepository: saveSession, loadSession, clearSession.                 *)
(***************************************************************************)
\* stored: localStorage.setItem did not throw
saveSession(user, rememberMe, stored) ==
    LET session == SessionOf(user, rememberMe, clock)
    IN /\ localStorage' = IF stored
                          THEN [localStorage EXCEPT !["user-session"] = SessionItem(session)]
                          ELSE localStorage
       /\ sessionReply' = [op |-> "saveSession", value |-> BooleanValue(stored),
                           now |-> clock, found |-> localStorage["user-session"]]
       /\ UNCHANGED <<clock, repository, requests, reply, fetchLog>>

loadSession ==
    LET item == localStorage["user-session"]
        removed == [localStorage EXCEPT !["user-session"] = Absent]
        Returns(value) == sessionReply' = [op |-> "loadSession", value |-> value,
                                           now |-> clock, found |-> item]
    IN /\ IF item = Absent
          THEN Returns(Null) /\ UNCHANGED localStorage
          ELSE IF item \in {Unparsable, Null}
          THEN Returns(Null) /\ localStorage' = removed
          ELSE IF IsSession(item) /\ SessionExpired(clock, item.items[1])
          THEN Returns(Null) /\ localStorage' = removed
          ELSE Returns(item) /\ UNCHANGED localStorage
       /\ UNCHANGED <<clock, repository, requests, reply, fetchLog>>

clearSession ==
    /\ localStorage' = [localStorage EXCEPT !["user-session"] = Absent]
    /\ sessionReply' = [op |-> "clearSession", value |-> BooleanValue(TRUE),
                        now |-> clock, found |-> localStorage["user-session"]]
    /\ UNCHANGED <<clock, repository, requests, reply, fetchLog>>

\* another writer replaces the item
ItemReplaced(item) ==
    /\ localStorage' = [localStorage EXCEPT !["user-session"] = item]
    /\ UNCHANGED <<clock, repository, requests, reply, fetchLog, sessionReply>>

(***************************************************************************)
(* UserService: authenticate and logout, with the callback the             *)
(* AppController registers (setupAuthenticationCallbacks).  authenticate   *)
(* awaits validateCredentials, which reads the data file; what follows     *)
(* the await runs in one step.                                             *)
(***************************************************************************)
FailedAtOnce(error) ==
    [state |-> "done", success |-> FALSE, error |-> error, fired |-> 0]

\* authenticate up to its await
authenticate(usernameOrEmail, password, rememberMe) ==
    LET call == [usernameOrEmail |-> usernameOrEmail, password |-> password,
                 rememberMe |-> rememberMe, before |-> currentUser]
    IN /\ logins' = Append(logins,
             IF usernameOrEmail = "" \/ password = ""
             THEN call @@ FailedAtOnce("Username/email and password are required")
                       @@ [resumed |-> currentUser, left |-> currentUser]
             ELSE call @@ [state |-> "pending", success |-> FALSE, error |-> "",
                           fired |-> 0, resumed |-> currentUser, left |-> currentUser])
       /\ UNCHANGED <<currentUser, appUser, isLoggedIn, clock, localStorage>>

\* validateCredentials settles for call i and authenticate continues;
\* fetched: the data file was loaded; saved: setItem of saveSession did not
\* throw
authenticateResumes(i, fetched, saved) ==
    /\ i \in 1..Len(logins)
    /\ logins[i].state = "pending"
    /\ LET call == logins[i]
           found == FoundUsers(IF fetched THEN UserFile ELSE {}, call.usernameOrEmail)
           Done(success, error, fired) ==
              logins' = [logins EXCEPT ![i] =
                 [@ EXCEPT !.state = "done", !.success = success, !.error = error,
                           !.fired = fired, !.resumed = currentUser,
                           !.left = currentUser']]
       IN IF found = {}
          THEN /\ UNCHANGED <<currentUser, appUser, isLoggedIn, localStorage>>
               /\ Done(FALSE, "User not found", 0)
          ELSE LET user == CHOOSE u \in found : TRUE
               IN IF user.password # call.password
                  THEN /\ UNCHANGED <<currentUser, appUser, isLoggedIn, localStorage>>
                       /\ Done(FALSE, "Invalid password", 0)
                  ELSE /\ currentUser' = user
                       /\ IF ~saved
                          THEN /\ UNCHANGED <<appUser, isLoggedIn, localStorage>>
                               /\ Done(FALSE, "Failed to save session", 0)
                          ELSE /\ isLoggedIn' = TRUE
                               /\ appUser' = user
                               /\ localStorage' = saveUserPreferences(
                                     [localStorage EXCEPT !["user-session"] =
                                         SessionItem(SessionOf(user, call.rememberMe, clock))],
                                     user)
                               /\ Done(TRUE, "", 1)
    /\ UNCHANGED clock

logout ==
    /\ currentUser' = NoUser
    /\ IF currentUser # NoUser
       THEN /\ isLoggedIn' = FALSE
            /\ appUser' = NoUser
            /\ localStorage' = saveUserPreferences(
                  [localStorage EXCEPT !["user-session"] = Absent], NoUser)
       ELSE /\ localStorage' = [localStorage EXCEPT !["user-session"] = Absent]
            /\ UNCHANGED <<isLoggedIn, appUser>>
    /\ UNCHANGED <<logins, clock>>

\* a preference is saved from the page
PreferencesSaved ==
    /\ localStorage' = saveUserPreferences(localStorage, appUser)
    /\ UNCHANGED <<currentUser, appUser, logins, isLoggedIn, clock>>

(***************************************************************************)
(* Spec: every operation, on the inputs above, with one observer.          *)
(***************************************************************************)
Room(max) == TotalEntries(workoutData.days) < max

Next ==
    \/ \E o \in {Render, NotAFunction} : addObserver(o) /\ UNCHANGED outsideManager
    \/ removeObserver(Render) /\ UNCHANGED outsideManager
    \/ \E d \in ArgDays, e \in AddInputs : Room(MaxEntries) /\ addExerciseToDay(d, e) /\ UNCHANGED outsideManager
    \/ \E d \in ArgDays, i \in ArgIndexes, u \in UpdateInputs : updateExerciseInDay(d, i, u) /\ UNCHANGED outsideManager
    \/ \E d \in ArgDays, i \in ArgIndexes : removeExerciseFromDay(d, i) /\ UNCHANGED outsideManager
    \/ \E f \in ArgDays, i \in ArgIndexes, t \in ArgDays, j \in ArgIndexes : moveExercise(f, i, t, j) /\ UNCHANGED outsideManager
    \/ \E d \in ArgDays : clearDay(d) /\ UNCHANGED outsideManager
    \/ \E u \in MetadataInputs : updateWorkoutMetadata(u) /\ UNCHANGED outsideManager
    \/ resetWorkout /\ UNCHANGED outsideManager
    \/ \E data \in LoadInputs : loadWorkoutData(data) /\ UNCHANGED outsideManager
    \/ ImportExported /\ UNCHANGED outsideManager

Spec == Init /\ [][Next]_vars

(***************************************************************************)
(* SpecMoves: the list operations on longer lists.                         *)
(***************************************************************************)
NextMoves ==
    \/ \E d \in ToDays : Room(MaxMoveEntries) /\ addExerciseToDay(d, Exercise(Squat)) /\ UNCHANGED outsideManager
    \/ \E d \in FromDays, i \in MoveIndexes : removeExerciseFromDay(d, i) /\ UNCHANGED outsideManager
    \/ \E f \in FromDays, i \in MoveIndexes, t \in ToDays, j \in MoveIndexes : moveExercise(f, i, t, j) /\ UNCHANGED outsideManager
    \/ clearDay(OtherDay) /\ UNCHANGED outsideManager

SpecMoves == Init /\ [][NextMoves]_vars

(***************************************************************************)
(* SpecEvents: every operation that publishes, with two observers, one of  *)
(* which throws.                                                           *)
(***************************************************************************)
NextEvents ==
    \/ \E o \in Observers : addObserver(o) /\ UNCHANGED outsideManager
    \/ \E o \in Observers : removeObserver(o) /\ UNCHANGED outsideManager
    \/ \E d \in EventDays, e \in {Exercise(Pause), NullExercise} :
          Room(MaxEventEntries) /\ addExerciseToDay(d, e) /\ UNCHANGED outsideManager
    \/ \E i \in EventIndexes : updateExerciseInDay("monday", i, SetReps) /\ UNCHANGED outsideManager
    \/ \E i \in EventIndexes : removeExerciseFromDay("monday", i) /\ UNCHANGED outsideManager
    \/ \E t \in EventDays : moveExercise("monday", 0, t, 0) /\ UNCHANGED outsideManager
    \/ \E d \in EventDays : clearDay(d) /\ UNCHANGED outsideManager
    \/ updateWorkoutMetadata(Rename) /\ UNCHANGED outsideManager
    \/ resetWorkout /\ UNCHANGED outsideManager
    \/ \E data \in {StoredPlan, NullDocument} : loadWorkoutData(data) /\ UNCHANGED outsideManager
    \/ ImportExported /\ UNCHANGED outsideManager

SpecEvents == Init /\ [][NextEvents]_vars

(***************************************************************************)
(* SpecCache: loadFromFile and clearCache of one repository as time        *)
(* passes, with fetches that succeed or fail and that may overlap.         *)
(***************************************************************************)
InitCache ==
    /\ OutsideRepositoryIdle
    /\ \E repo \in Repositories : RepositoryConstructed(repo, Absent)

NextCache ==
    \/ \E t \in Instants : Tick(t) /\ UNCHANGED outsideRepository
    \/ Len(requests) < MaxRequests /\ loadFromFile("loadFromFile") /\ UNCHANGED outsideRepository
    \/ \E i \in 1..MaxRequests, o \in {"ok", "failed"} :
          fetchSettles(i, o) /\ UNCHANGED outsideRepository
    \/ clearCache /\ UNCHANGED outsideRepository

SpecCache == InitCache /\ [][NextCache]_vars

(***************************************************************************)
(* SpecReads: the read methods of the repositories and the services, with  *)
(* fetches that end in every way.                                          *)
(***************************************************************************)
InitReads ==
    /\ OutsideRepositoryIdle
    /\ \E repo \in Repositories, stored \in {Absent, List(<<Entity(1, "saved")>>)} :
          RepositoryConstructed(repo, stored)

NextReads ==
    \/ \E c \in ReadersOf(repository) :
          Len(requests) < MaxReadRequests /\ loadFromFile(c) /\ UNCHANGED outsideRepository
    \/ \E i \in 1..MaxReadRequests, o \in FetchOutcomes :
          fetchSettles(i, o) /\ UNCHANGED outsideRepository
    \/ clearCache /\ UNCHANGED outsideRepository

SpecReads == InitReads /\ [][NextReads]_vars

(***************************************************************************)
(* SpecStorage: create, update and delete on a repository with and without *)
(* a localStorage key, next to reads of the data file.                     *)
(***************************************************************************)
InitStorage ==
    /\ OutsideRepositoryIdle
    /\ \E repo \in Repositories, stored \in StoredAtStart : RepositoryConstructed(repo, stored)

NextStorage ==
    \/ Len(requests) < MaxStorageRequests /\ loadFromFile("loadFromFile")
          /\ UNCHANGED outsideRepository
    \/ fetchSettles(1, "ok") /\ UNCHANGED outsideRepository
    \/ \E e \in NewEntities :
          /\ Len(StoredArray(localStorage, "user-workouts")) < MaxStored
          /\ create(e)
          /\ UNCHANGED outsideRepository
    \/ \E id \in EntityIds, u \in EntityUpdates : update(id, u) /\ UNCHANGED outsideRepository
    \/ \E id \in EntityIds : delete(id) /\ UNCHANGED outsideRepository

SpecStorage == InitStorage /\ [][NextStorage]_vars

(***************************************************************************)
(* SpecCalculator: calculateBMI on every weight, height and unit of the    *)
(* bounds.                                                                 *)
(***************************************************************************)
InitCalculator ==
    /\ OutsideCalculatorIdle
    /\ measurement \in [weight : Weights, height : Heights, unit : Units]
    /\ bmiResult = NotCalculated

Calculate(side) ==
    /\ bmiResult = NotCalculated
    /\ bmiResult' = calculateBMI(measurement.weight, measurement.height, measurement.unit, side)
    /\ UNCHANGED measurement

NextCalculator ==
    \E side \in Sides(measurement.weight, measurement.height, measurement.unit) :
        Calculate(side) /\ UNCHANGED outsideCalculator

SpecCalculator == InitCalculator /\ [][NextCalculator]_vars

(***************************************************************************)
(* SpecWorkout: the list methods of a Workout constructed with a name.     *)
(***************************************************************************)
InitWorkout ==
    /\ OutsideEntityIdle
    /\ WorkoutIdle

NextWorkout ==
    \/ \E x \in WorkoutExercises :
          /\ Len(workout.exercises) < MaxExercises
          /\ addExercise(x)
          /\ UNCHANGED outsideEntity
    \/ \E i \in ExerciseIndexes : removeExercise(i) /\ UNCHANGED outsideEntity
    \/ \E i \in ExerciseIndexes, u \in ExerciseUpdates :
          updateExercise(i, u) /\ UNCHANGED outsideEntity
    \/ \E i \in ExerciseIndexes, j \in ExerciseIndexes :
          reorderExercises(i, j) /\ UNCHANGED outsideEntity

SpecWorkout == InitWorkout /\ [][NextWorkout]_vars

(***************************************************************************)
(* SpecLoader: calls of a ContentLoader, their fetches and their timers.   *)
(* A timer that is armed fires: the fairness condition is the one of       *)
(* setTimeout.                                                             *)
(***************************************************************************)
InitLoader ==
    /\ OutsideLoaderIdle
    /\ LoaderConstructed

NextLoader ==
    \/ \E a \in LoadArguments :
          /\ Len(loads) < MaxLoads
          /\ loadContent(a)
          /\ UNCHANGED outsideLoader
    \/ \E f \in LoaderFiles, ok \in BOOLEAN : fetchContent(f, ok) /\ UNCHANGED outsideLoader
    \/ \E i \in 1..MaxLoads : TimerFires(i) /\ UNCHANGED outsideLoader
    \/ (cache # {} /\ ContentLoader_clearCache /\ UNCHANGED outsideLoader)
    \/ \E f \in LoaderFiles : f \in cache /\ invalidateCache(f) /\ UNCHANGED outsideLoader

SpecLoader ==
    /\ InitLoader
    /\ [][NextLoader]_vars
    /\ \A i \in 1..MaxLoads : WF_loaderVars(TimerFires(i))

(***************************************************************************)
(* SpecRouting: navigation of an AppController whose user logs in and out. *)
(***************************************************************************)
InitRouting ==
    /\ OutsideAppIdle
    /\ LoaderConstructed
    /\ AppConstructed

NextRouting ==
    \/ \E p \in PageNames, h \in BOOLEAN :
          /\ Len(navigations) < MaxNavigations
          /\ navigateTo(p, h)
          /\ UNCHANGED outsideApp
    \/ \E f \in ContentFiles, ok \in BOOLEAN : ContentArrives(f, ok) /\ UNCHANGED outsideApp
    \/ \E b \in BOOLEAN : b # isLoggedIn /\ onAuthChange(b) /\ UNCHANGED outsideApp

SpecRouting == InitRouting /\ [][NextRouting]_vars

(***************************************************************************)
(* SpecSession: the session of a UserRepository over the instants around   *)
(* the two lifetimes.                                                      *)
(***************************************************************************)
InitSession ==
    /\ OutsideSessionIdle
    /\ RepositoryIdle
    /\ SessionIdle

NextSession ==
    \/ \E t \in SessionInstants : Tick(t) /\ UNCHANGED sessionVars /\ UNCHANGED outsideSession
    \/ \E u \in Users, r \in BOOLEAN, s \in BOOLEAN :
          saveSession(u, r, s) /\ UNCHANGED outsideSession
    \/ (loadSession /\ UNCHANGED outsideSession)
    \/ (clearSession /\ UNCHANGED outsideSession)
    \/ \E i \in ForeignItems : ItemReplaced(i) /\ UNCHANGED outsideSession

SpecSession == InitSession /\ [][NextSession]_vars

(***************************************************************************)
(* SpecAuth: logins and logouts of a page whose AppController has          *)
(* registered its callback.                                                *)
(***************************************************************************)
\* what the steps of SpecAuth leave alone in the components they build on
AuthFrame ==
    UNCHANGED <<repository, requests, reply, fetchLog,
                mainContent, currentContent, currentPage, location, navigations>>

InitAuth ==
    /\ OutsideAuthIdle
    /\ RepositoryIdle
    /\ AppConstructed
    /\ AuthConstructed

NextAuth ==
    \/ \E n \in EnteredNames, p \in EnteredPasswords, r \in BOOLEAN :
          /\ Len(logins) < MaxLogins
          /\ authenticate(n, p, r)
          /\ AuthFrame /\ UNCHANGED outsideAuth
    \/ \E i \in 1..MaxLogins, f \in BOOLEAN, s \in BOOLEAN :
          authenticateResumes(i, f, s) /\ AuthFrame /\ UNCHANGED outsideAuth
    \/ (logout /\ AuthFrame /\ UNCHANGED outsideAuth)
    \/ (PreferencesSaved /\ AuthFrame /\ UNCHANGED outsideAuth)

SpecAuth == InitAuth /\ [][NextAuth]_vars

(***************************************************************************)
(* WorkoutService (src/unnamed/part_004): createWorkout, getWorkout and    *)
(* updateWorkout over the WorkoutRepository.  getWorkout is the            *)
(* repository's getById, which looks through getAll(): the data file.      *)
(* createWorkout and updateUserWorkout work on the collection in the       *)
(* storage.                                                                *)
(***************************************************************************)
\* the names createWorkout is called with; validateWorkout refuses the
\* empty one
WorkoutNames == {"", "mine"}

\* the ids getWorkout and updateWorkout are called with: one of the data
\* file, and the ids createWorkout has given
WorkoutIds == {1} \cup {Len(FileEntities) + k : k \in 1..MaxStored}

\* Workout.generateId(): `workout-${timestamp}-${random}`, modelled as the
\* least id that neither the data file nor the storage has
Workout_generateId(data) ==
    generateId({FileEntities[k].id : k \in 1..Len(FileEntities)}
                  \cup {data[k].id : k \in 1..Len(data)})

validateWorkout(name) == name # ""

createWorkout(name) ==
    IF ~validateWorkout(name)
    THEN /\ reply' = Reply("createWorkout", "createWorkout", "rejected",
                           ErrorValue("Validation failed"), FALSE)
         /\ UNCHANGED <<clock, localStorage, repository, requests, fetchLog>>
    ELSE LET data == StoredArray(localStorage, repository.localStorageKey)
             created == Entity(Workout_generateId(data), name)
         IN /\ localStorage' = WriteCollection(localStorage, repository.localStorageKey,
                                               Append(data, created))
            /\ reply' = Reply("createWorkout", "createWorkout", "resolved",
                              EntityValue(created), FALSE)
            /\ UNCHANGED <<clock, repository, requests, fetchLog>>

\* getWorkout and updateWorkout once getAll() has given `entities`, or has
\* thrown (`loaded` false)
ServiceOutcome(caller, id, updates, loaded, entities, store, key) ==
    LET existing == IF loaded THEN getById(entities, id) ELSE NullValue
    IN IF caller = "getWorkout"
       THEN [store |-> store, settled |-> "resolved", value |-> existing]
       ELSE IF existing.kind = "null"
       THEN [store |-> store, settled |-> "rejected",
             value |-> ErrorValue("Workout not found")]
       ELSE UpdateOutcome(store, key, id, updates)

\* getWorkout(id) or updateWorkout(id, updates) is called: getById answers
\* from the cached file or waits for the fetch
callService(caller, id, updates) ==
    LET now == clock
        outcome == ServiceOutcome(caller, id, updates, TRUE,
                      repository.cache.data.entities, localStorage,
                      repository.localStorageKey)
    IN /\ IF CacheIsFresh(repository, now)
          THEN /\ localStorage' = outcome.store
               /\ reply' = Reply("call", caller, outcome.settled, outcome.value, FALSE)
               /\ UNCHANGED requests
          ELSE /\ requests' = Append(requests,
                     [caller |-> caller, now |-> now, held |-> << >>,
                      id |-> id, updates |-> updates])
               /\ reply' = Reply("call", caller, "pending", NullValue, TRUE)
               /\ UNCHANGED localStorage
       /\ fetchLog' = [fetchLog EXCEPT !.cleared = FALSE]
       /\ UNCHANGED <<clock, repository>>

getWorkout(id) == callService("getWorkout", id, Entity(0, ""))

updateWorkout(id, updates) == callService("updateWorkout", id, updates)

\* the fetch of the i-th waiting call of the service settles, and the call
\* runs to its end
serviceFetchSettles(i, outcome) ==
    /\ i <= Len(requests)
    /\ LET r == requests[i]
           result == ServiceOutcome(r.caller, r.id, r.updates, outcome = "ok",
                        FileEntities, localStorage, repository.localStorageKey)
       IN /\ requests' = SpliceOut(requests, i - 1)
          /\ localStorage' = result.store
          /\ reply' = Reply("settle", r.caller, result.settled, result.value, TRUE)
          /\ IF outcome = "ok"
             THEN /\ repository' = StoreFetched(repository, FileData, r.now)
                  /\ fetchLog' = [fetchLog EXCEPT !.began = r.now, !.finished = clock]
             ELSE UNCHANGED <<repository, fetchLog>>
    /\ UNCHANGED clock

(***************************************************************************)
(* SpecService: workouts are created, looked up and updated through the    *)
(* service, with fetches of the data file that succeed or fail.            *)
(***************************************************************************)
InitService ==
    /\ OutsideRepositoryIdle
    /\ RepositoryConstructed(WorkoutRepository, Absent)

NextService ==
    \/ \E name \in WorkoutNames :
          /\ Len(StoredArray(localStorage, "user-workouts")) < MaxStored
          /\ createWorkout(name)
          /\ UNCHANGED outsideRepository
    \/ \E id \in WorkoutIds :
          /\ Len(requests) < MaxServiceRequests
          /\ getWorkout(id)
          /\ UNCHANGED outsideRepository
    \/ \E id \in WorkoutIds, u \in EntityUpdates :
          /\ Len(requests) < MaxServiceRequests
          /\ updateWorkout(id, u)
          /\ UNCHANGED outsideRepository
    \/ \E i \in 1..MaxServiceRequests, o \in {"ok", "failed"} :
          serviceFetchSettles(i, o) /\ UNCHANGED outsideRepository
    \/ clearCache /\ UNCHANGED outsideRepository

SpecService == InitService /\ [][NextService]_vars

(***************************************************************************)
(* WorkoutManager: rendering, and the handlers that add, delete and drag   *)
(* entries.  renderDayExercises awaits the enhanced entries before it      *)
(* writes the container; the awaits are taken to finish before the next    *)
(* event of the user, so a render is part of the step that asks for it.    *)
(***************************************************************************)
\* getExercisesForDay(day): [...(this.workoutData.days[day] || [])]
getExercisesForDay(days, day) == IF IsArray(days[day]) THEN days[day].items ELSE << >>

\* renderDayExercises(day): the container's innerHTML is rebuilt from the
\* day's entries, each item with its index
renderDayExercises(shown, days, day) ==
    IF day \in ViewDays
    THEN [shown EXCEPT ![day] = getExercisesForDay(days, day)]
    ELSE shown

\* populateAllDays(): every day is rendered
populateAllDays(shown, days) == [d \in ViewDays |-> getExercisesForDay(days, d)]

\* handleDataChange(event, data): what the page shows after the event;
\* `day` is data.day
handleDataChange(shown, event, day, toDay, days) ==
    CASE event \in {"workoutLoaded", "workoutReset"} -> populateAllDays(shown, days)
      [] event \in {"exerciseAdded", "exerciseUpdated", "exerciseRemoved", "dayCleared"} ->
            renderDayExercises(shown, days, day)
      [] OTHER -> shown

\* the observer the constructor registered is called with what the
\* manager published, if it published
Observed(day, toDay) ==
    rendered' = IF calls' = << >> THEN rendered
                ELSE handleDataChange(rendered, calls'[1].event, day, toDay, workoutData'.days)

\* handleAddExercise: the modal's entry is added to the selected day
handleAddExercise(day, exercise) ==
    /\ dragData = NoDrag
    /\ addExerciseToDay(day, exercise)
    /\ Observed(day, day)
    /\ UNCHANGED dragData

\* handleDeleteExerciseFromItem: the delete button of the item shown at
\* position k of the day, confirmed by the user.  exercises[index] is
\* undefined when the list is shorter than the page shows; item.type then
\* throws and the handler ends
handleDeleteExerciseFromItem(day, k) ==
    /\ dragData = NoDrag
    /\ k < Len(rendered[day])
    /\ IF k < Len(getExercisesForDay(workoutData.days, day))
       THEN /\ removeExerciseFromDay(day, k)
            /\ Observed(day, day)
       ELSE UNCHANGED <<managerVars, rendered>>
    /\ UNCHANGED dragData

\* handleDragStart: the item shown at position k of the day is dragged
handleDragStart(day, k) ==
    /\ dragData = NoDrag
    /\ k < Len(rendered[day])
    /\ dragData' = [dragging |-> TRUE, sourceDay |-> day, sourceIndex |-> k]
    /\ UNCHANGED <<managerVars, rendered>>

\* the items of the day that are not being dragged
NotDragging(day) ==
    Len(rendered[day]) - (IF dragData.dragging /\ dragData.sourceDay = day THEN 1 ELSE 0)

\* the index handleDrop passes to moveExercise for a drop into gap
\* `targetIndex`: one less for a move down within a day
DropIndex(sourceDay, sourceIndex, targetDay, targetIndex) ==
    IF sourceDay = targetDay /\ sourceIndex < targetIndex
    THEN targetIndex - 1
    ELSE targetIndex

\* handleDrop: the pointer is below the middle of `gap` of the day's items
\* that are not dragged, and above the middle of the next
handleDrop(targetDay, gap) ==
    /\ dragData.dragging
    /\ gap <= NotDragging(targetDay)
    /\ IF dragData.sourceDay # targetDay \/ dragData.sourceIndex # gap
       THEN /\ moveExercise(dragData.sourceDay, dragData.sourceIndex, targetDay,
                            DropIndex(dragData.sourceDay, dragData.sourceIndex, targetDay, gap))
            /\ Observed(dragData.sourceDay, targetDay)
       ELSE UNCHANGED <<managerVars, rendered>>
    /\ dragData' = NoDrag

\* handleDragEnd: the drag ends without a drop
handleDragEnd ==
    /\ dragData.dragging
    /\ dragData' = NoDrag
    /\ UNCHANGED <<managerVars, rendered>>

(***************************************************************************)
(* SpecView: entries are added, deleted and dragged in the page.           *)
(***************************************************************************)
InitView ==
    /\ OutsideViewIdle
    /\ workoutData = createEmptyWorkout(1)
    /\ observers = <<Render>>
    /\ calls = << >>
    /\ last = Result("addObserver", TRUE)
    /\ ViewConstructed

NextView ==
    \/ \E d \in ViewDays :
          Room(MaxViewEntries) /\ handleAddExercise(d, Exercise(Squat)) /\ UNCHANGED outsideView
    \/ \E d \in ViewDays, k \in 0..MaxViewEntries :
          handleDeleteExerciseFromItem(d, k) /\ UNCHANGED outsideView
    \/ \E d \in ViewDays, k \in 0..MaxViewEntries :
          handleDragStart(d, k) /\ UNCHANGED outsideView
    \/ \E d \in ViewDays, k \in 0..MaxViewEntries :
          handleDrop(d, k) /\ UNCHANGED outsideView
    \/ handleDragEnd /\ UNCHANGED outsideView

SpecView == InitView /\ [][NextView]_vars

(***************************************************************************)
(* Properties.                                                             *)
(***************************************************************************)
ItemsOf(wd, d) == wd.days[d].items

\* s without its element at 0-based index i
Without(s, i) == SubSeq(s, 1, i) \o SubSeq(s, i + 2, Len(s))

\* how often entry x occurs in the lists of the days
Occurrences(days, x) ==
    Cardinality({<<d, k>> \in DayKeys \X (1..(MaxMoveEntries + 1)) :
                    k <= Len(days[d].items) /\ days[d].items[k] = x})

AllEntries(days) == UNION {Elements(days[d].items) : d \in DayKeys}

\* C1: in every reachable state the days mapping holds a list under each of
\* the seven weekday keys.
C1_WeekdaysAlwaysLists ==
    /\ Cardinality(Weekdays) = 7
    /\ \A d \in Weekdays : d \in DOMAIN workoutData.days /\ workoutData.days[d].kind = "list"

\* a file that names no day at all has been loaded, and a day has been
\* cleared after a load
C1_Witness ==
    /\ last.op = "clearDay"
    /\ last.success
    /\ workoutData.name = "Plan"
    /\ workoutData.difficulty = DefaultDifficulty

\* C2: a successful addExerciseToDay(day, entry) makes the day's list one
\* longer, with the entry (given an id and a type) at its end and the
\* entries before it as they were, and changes the list of no other day.
C2_AddAppendsOne ==
    [][(last'.op = "addExerciseToDay" /\ last'.success) =>
          LET d == last'.day
              old == ItemsOf(workoutData, d)
              new == ItemsOf(workoutData', d)
          IN /\ workoutData'.days[d].kind = "list"
             /\ Len(new) = Len(old) + 1
             /\ SubSeq(new, 1, Len(old)) = old
             /\ [new[Len(new)] EXCEPT !.id = 0, !.type = ""] = Squat
             /\ new[Len(new)].type = "exercise"
             /\ new[Len(new)].id \notin IdsOf(old) \cup {0}
             /\ \A other \in DayKeys \ {d} : workoutData'.days[other] = workoutData.days[other]]_vars

\* an entry has been added behind two others
C2_Witness ==
    /\ last.op = "addExerciseToDay"
    /\ last.success
    /\ Len(ItemsOf(workoutData, last.day)) = 3

\* C3: a successful moveExercise(fromDay, fromIndex, toDay, toIndex) takes
\* the entry out of fromDay and puts it into toDay at index toIndex, or at
\* the end when toIndex is beyond the end; monday[0] moved to tuesday index 0
\* leaves Monday and becomes tuesday[0]; the number of entries stays.
C3_MoveToIndex ==
    [][(last'.op = "moveExercise" /\ last'.success) =>
          LET f == last'.day
              i == last'.index
              t == last'.toDay
              j == last'.toIndex
              moved == ItemsOf(workoutData, f)[i + 1]
              room == IF f = t THEN Len(ItemsOf(workoutData, t)) - 1 ELSE Len(ItemsOf(workoutData, t))
              at == IF j > room THEN room ELSE j
          IN /\ ItemsOf(workoutData', t)[at + 1] = moved
             /\ f # t => /\ Len(ItemsOf(workoutData', f)) = Len(ItemsOf(workoutData, f)) - 1
                         /\ moved \notin Elements(ItemsOf(workoutData', f))
                         /\ Len(ItemsOf(workoutData', t)) = Len(ItemsOf(workoutData, t)) + 1
             /\ (f = "monday" /\ i = 0 /\ t = "tuesday" /\ j = 0) =>
                   /\ ItemsOf(workoutData', "monday") = Tail(ItemsOf(workoutData, "monday"))
                   /\ ItemsOf(workoutData', "tuesday") = <<moved>> \o ItemsOf(workoutData, "tuesday")
             /\ TotalEntries(workoutData'.days) = TotalEntries(workoutData.days)]_vars

\* monday[0] has been moved to the head of a Tuesday that held an entry
C3_Witness ==
    /\ last.op = "moveExercise"
    /\ last.success
    /\ last.day = "monday" /\ last.index = 0
    /\ last.toDay = "tuesday" /\ last.toIndex = 0
    /\ Len(ItemsOf(workoutData, "tuesday")) >= 2

\* C4: after a successful moveExercise the entries other than the moved one
\* are in the order they were in, in the source day and in the destination
\* day, the other days are as they were, and every entry occurs as often as
\* before.
C4_MoveKeepsOrder ==
    [][(last'.op = "moveExercise" /\ last'.success) =>
          LET f == last'.day
              t == last'.toDay
              moved == ItemsOf(workoutData, f)[last'.index + 1]
              rest == Without(ItemsOf(workoutData, f), last'.index)
          IN /\ \E k \in 0..(Len(ItemsOf(workoutData', t)) - 1) :
                   /\ ItemsOf(workoutData', t)[k + 1] = moved
                   /\ Without(ItemsOf(workoutData', t), k) =
                         (IF f = t THEN rest ELSE ItemsOf(workoutData, t))
             /\ f # t => ItemsOf(workoutData', f) = rest
             /\ \A d \in DayKeys \ {f, t} : workoutData'.days[d] = workoutData.days[d]
             /\ \A x \in AllEntries(workoutData.days) \cup AllEntries(workoutData'.days) :
                   Occurrences(workoutData'.days, x) = Occurrences(workoutData.days, x)]_vars

\* an entry has changed its place in a day that holds three
C4_Witness ==
    /\ last.op = "moveExercise"
    /\ last.success
    /\ last.day = last.toDay
    /\ last.index # last.toIndex
    /\ Len(ItemsOf(workoutData, last.day)) = 3

\* C5: reading back the file written by exportToJSON succeeds and gives an
\* aggregate with the same name and the same days (the same entries in the
\* same order, hence the same number of entries in every day).
C5_ExportImportRoundTrip ==
    [][last'.op = "importExported" =>
          /\ last'.success
          /\ workoutData'.name = workoutData.name
          /\ workoutData'.days = workoutData.days
          /\ \A d \in DayKeys : Len(ItemsOf(workoutData', d)) = Len(ItemsOf(workoutData, d))]_vars

\* the day mapping of a document is given under the legacy key alone, and
\* holds an array or nothing for every weekday
UnderScheduleOnly(data) ==
    /\ data.isObject
    /\ data.name \notin {"", " "}
    /\ data.days.kind = "absent"
    /\ data.schedule.kind = "map"
    /\ \A d \in Weekdays : data.schedule.map[d].kind \in {"absent", "null", "list"}

\* entry `new` is entry `given` with some of its missing properties filled in
FilledIn(given, new) ==
    /\ new.id = given.id
    /\ new.name = given.name
    /\ new.repsCount = given.repsCount
    /\ new.weightValue = given.weightValue
    /\ given.type # "" => new.type = given.type
    /\ given.reps # 0 => new.reps = given.reps
    /\ given.weight # << >> => new.weight = given.weight
    /\ given.intensity # 0 => new.intensity = given.intensity

\* C6: loadWorkoutData on an object with a valid name and its day mapping
\* under `schedule` alone succeeds; afterwards `days` holds, for every weekday
\* the schedule gives a list for, that list's entries in their order (with
\* missing properties filled in), and the empty list for every other weekday.
C6_ScheduleBecomesDays ==
    [][\A data \in LoadInputs :
          (UnderScheduleOnly(data) /\ loadWorkoutData(data)) =>
             /\ last'.success
             /\ \A d \in Weekdays :
                   LET given == data.schedule.map[d]
                       new == workoutData'.days[d]
                   IN /\ new.kind = "list"
                      /\ IF given.kind = "list"
                         THEN /\ Len(new.items) = Len(given.items)
                              /\ \A k \in 1..Len(given.items) : FilledIn(given.items[k], new.items[k])
                         ELSE new.items = << >>]_vars

\* the legacy plan has been loaded: Tuesday holds its two entries
C6_Witness ==
    /\ last.op = "loadWorkoutData"
    /\ last.success
    /\ Len(ItemsOf(workoutData, "tuesday")) = 2
    /\ ItemsOf(workoutData, "tuesday")[1].name = "row"
    /\ ItemsOf(workoutData, "tuesday")[2].name = "pause"

\* the day holds a list with an entry at the 0-based index
EntryAt(d, i) ==
    /\ workoutData.days[d].kind = "list"
    /\ i + 1 \in DOMAIN workoutData.days[d].items

\* the operation returned {success: false, error}, changed no list and
\* called no observer
Refused ==
    /\ ~last'.success
    /\ ~last'.threw
    /\ workoutData'.days = workoutData.days
    /\ calls' = << >>
    /\ observers' = observers

\* C7: updateExerciseInDay, removeExerciseFromDay and moveExercise, called
\* with a day or an index that names no entry, return {success: false,
\* error} without throwing, leave every list as it was and notify nobody.
C7_MissingEntryRefused ==
    [][\A d \in ArgDays, i \in ArgIndexes :
          ~EntryAt(d, i) =>
             /\ removeExerciseFromDay(d, i) => Refused
             /\ \A u \in UpdateInputs : updateExerciseInDay(d, i, u) => Refused
             /\ \A t \in ArgDays, j \in ArgIndexes : moveExercise(d, i, t, j) => Refused]_vars

\* an entry that is not there was to be moved, with an observer registered
\* and an entry in the aggregate
C7_Witness ==
    /\ last.op = "moveExercise"
    /\ ~last.success
    /\ observers # << >>
    /\ TotalEntries(workoutData.days) > 0

\* the event each operation publishes
EventOf ==
    [addExerciseToDay |-> "exerciseAdded",
     updateExerciseInDay |-> "exerciseUpdated",
     removeExerciseFromDay |-> "exerciseRemoved",
     moveExercise |-> "exerciseMoved",
     clearDay |-> "dayCleared",
     updateWorkoutMetadata |-> "workoutMetadataUpdated",
     loadWorkoutData |-> "workoutLoaded",
     importExported |-> "workoutLoaded",
     resetWorkout |-> "workoutReset"]

Mutations == DOMAIN EventOf

\* the last operation was clearDay on a key that holds no list: it returns
\* success and does nothing
ClearedNothing == last.op = "clearDay" /\ workoutData.days[last.day].kind # "list"

\* C8: when an operation has published its event and returned, every
\* registered observer has been called with that event exactly once, in the
\* order of registration.
C8_DeliveryInOrder ==
    (last.op \in Mutations /\ last.success /\ ~ClearedNothing) =>
       /\ Len(calls) = Len(observers)
       /\ \A k \in 1..Len(observers) :
             /\ calls[k].observer = observers[k]
             /\ calls[k].event = EventOf[last.op]
       /\ \A k, m \in 1..Len(calls) : calls[k].observer = calls[m].observer => k = m

\* an entry has been moved with the two observers registered, render first
C8_Witness ==
    /\ last.op = "moveExercise"
    /\ last.success
    /\ observers = <<Render, Faulty>>
    /\ Len(calls) = 2

\* C9: when an observer throws during delivery, the observers registered
\* after it are called all the same, the operation returns its success
\* result, and the aggregate is as the operation changed it.
C9_ThrowingObserverCaught ==
    \A k \in 1..Len(calls) :
       calls[k].threw =>
          /\ \A m \in (k + 1)..Len(observers) :
                m \in DOMAIN calls /\ calls[m].observer = observers[m]
          /\ last.success
          /\ ~last.threw
          /\ workoutData = calls[k].seen

\* an entry has been added with the throwing observer registered first
C9_Witness ==
    /\ last.op = "addExerciseToDay"
    /\ last.success
    /\ observers = <<Faulty, Render>>
    /\ Len(calls) = 2
    /\ calls[1].threw
    /\ TotalEntries(workoutData.days) = 1

\* every observer has been called once, with the event of the last
\* operation and the aggregate as the operation left it
PublishedOnce ==
    /\ Len(calls) = Len(observers)
    /\ \A k \in 1..Len(calls) :
          /\ calls[k].event = EventOf[last.op]
          /\ calls[k].seen = workoutData

\* C10, as claimed: every operation on the aggregate that returns success
\* publishes its event once, after the change.
C10_Claimed ==
    (last.op \in Mutations /\ last.success) => PublishedOnce

\* C10, amended: every operation on the aggregate that returns success
\* publishes its event once, after the change, but for clearDay on a key
\* that holds no list, which returns success and publishes nothing.
C10_PublishedAfterChange ==
    /\ (last.op \in Mutations /\ last.success /\ ~ClearedNothing) => PublishedOnce
    /\ ClearedNothing => calls = << >>

\* a day that holds a list has been cleared, with both observers registered
\* and an entry in another day
C10_Witness ==
    /\ last.op = "clearDay"
    /\ last.success
    /\ ~ClearedNothing
    /\ Len(observers) = 2
    /\ Len(calls) = 2
    /\ TotalEntries(workoutData.days) = 1

\* loadFromFile answered from the cache, starting no fetch
AnsweredFromCache ==
    /\ requests' = requests
    /\ reply' = Reply("call", "loadFromFile", "resolved", Data(FileData), FALSE)

\* loadFromFile started a fetch and waits for it
StartedFetch ==
    /\ Len(requests') = Len(requests) + 1
    /\ reply'.settled = "pending"
    /\ reply'.fetched

\* C11, as claimed: a loadFromFile call made less than cacheExpiry after a
\* fetch succeeded returns the cached data without fetching, and the first
\* call after the time-to-live has elapsed, or after clearCache, fetches.
C11_Claimed ==
    [][loadFromFile("loadFromFile") =>
          /\ (/\ fetchLog.finished # 0
              /\ ~fetchLog.cleared
              /\ clock - fetchLog.finished < cacheExpiry) => AnsweredFromCache
          /\ (\/ fetchLog.cleared
              \/ /\ fetchLog.finished # 0
                 /\ clock - fetchLog.finished >= cacheExpiry) => StartedFetch]_vars

\* C11: the time-to-live of the cached data counts from the instant at which
\* the call began whose fetch succeeded last.  A loadFromFile call made less
\* than cacheExpiry after that instant, with no clearCache since that fetch
\* finished, returns the cached data without fetching; every other call
\* starts a fetch of its own.
C11_CachedForTimeToLive ==
    [][loadFromFile("loadFromFile") =>
          IF fetchLog.began # 0 /\ clock - fetchLog.began < cacheExpiry
          THEN AnsweredFromCache
          ELSE StartedFetch]_vars

\* a call has been answered from the cache one second before the
\* time-to-live ended
C11_Witness ==
    /\ reply.step = "call"
    /\ reply.settled = "resolved"
    /\ ~reply.fetched
    /\ fetchLog.began # 0
    /\ clock - fetchLog.began = cacheExpiry - 1

\* C12: create, update and delete on a repository without a localStorage
\* key reject and leave the storage as it is; on a repository with a key
\* they leave every other key of the storage as it is; and none of them
\* changes the cache of the data file.
C12_MutationsUseOwnKey ==
    [][\A e \in NewEntities, id \in EntityIds, u \in EntityUpdates :
          (create(e) \/ update(id, u) \/ delete(id)) =>
             /\ repository' = repository
             /\ IF repository.localStorageKey = ""
                THEN /\ reply'.settled = "rejected"
                     /\ localStorage' = localStorage
                ELSE /\ reply'.settled = "resolved"
                     /\ \A k \in StorageKeys \ {repository.localStorageKey} :
                           localStorage'[k] = localStorage[k]]_vars

\* an entity has been created in the stored collection of a repository that
\* holds the data of its file in the cache
C12_Witness ==
    /\ reply.step = "create"
    /\ reply.settled = "resolved"
    /\ repository.cache = Cached(FileData)
    /\ localStorage[repository.localStorageKey].kind = "list"
    /\ Len(localStorage[repository.localStorageKey].items) = 2

\* C13, as claimed: a read whose fetch fails leaves the cache as it is; the
\* repository's own read rejects, and a read method of a service resolves
\* with an empty collection (or null, when it looks up one entity).
C13_ReadersFallBack ==
    [][\A i \in 1..MaxReadRequests, o \in FetchOutcomes \ {"ok"} :
          fetchSettles(i, o) =>
             /\ repository' = repository
             /\ IF requests[i].caller = "loadFromFile"
                THEN reply'.settled = "rejected"
                ELSE /\ reply'.settled = "resolved"
                     /\ reply'.value \in {List(<< >>), NullValue}]_vars

\* the data the claim has loadWorkoutData reject: no object, no name or a
\* blank one, no mapping under `days` or `schedule`, a mapping that is no
\* object, a weekday whose value is no list
RejectedData(data) ==
    LET mapping == IF data.days.kind # "absent" THEN data.days ELSE data.schedule
    IN \/ ~data.isObject
       \/ data.name \in BlankNames
       \/ mapping.kind # "map"
       \/ \E d \in Weekdays : Truthy(mapping.map[d]) /\ ~IsArray(mapping.map[d])

\* C18, as claimed: loadWorkoutData called with such data returns
\* {success: false} without throwing, leaves the aggregate as it was and
\* makes no observer call.
C18_RejectedLoadChangesNothing ==
    [][\A data \in LoadInputs :
          (RejectedData(data) /\ loadWorkoutData(data)) =>
             /\ ~last'.success
             /\ ~last'.threw
             /\ workoutData' = workoutData
             /\ calls' = << >>]_vars

\* the exact quotient weight / (height / 100)^2 of the measurement
Quotient == ExactBMI(measurement.weight, measurement.height, "metric")

\* the exact quotient rounded to one decimal, in tenths
RoundedQuotient ==
    LET q == (10 * Quotient.num) \div Quotient.den
        r == (10 * Quotient.num) % Quotient.den
    IN IF 2 * r >= Quotient.den THEN q + 1 ELSE q

\* bound <= weight / (height / 100)^2, for a bound in tenths
QuotientAtLeast(bound) == 10 * Quotient.num >= bound * Quotient.den

\* C17, as claimed: calculateBMI(weight in kg, height in cm) returns
\* weight / (height / 100)^2 rounded to one decimal, and the category whose
\* range contains that quotient: normal exactly when it is at least 18.5 and
\* less than 25; calculateBMI(70, 175) returns 22.9 and normal.
C17_BMIRoundedAndCategorized ==
    (/\ bmiResult # NotCalculated
     /\ measurement.unit = "metric"
     /\ ~bmiResult.threw) =>
        /\ bmiResult.value = RoundedQuotient
        /\ \A k \in 1..Len(bmiCategories) :
              (bmiResult.category = bmiCategories[k].name) <=>
                 (/\ QuotientAtLeast(bmiCategories[k].min)
                  /\ ~QuotientAtLeast(bmiCategories[k].max))
        /\ (measurement.weight = 70 /\ measurement.height = 175) =>
              (bmiResult.value = 229 /\ bmiResult.category = "normal")

\* C15, as claimed: after every addExercise, removeExercise, updateExercise
\* and reorderExercises that returned, the difficulty is the rounded average
\* of the difficulty levels of the exercises (where there are any), and the
\* equipment and the target muscles are the ones the exercises name.
C15_MetadataMatchesExercises ==
    (workoutCall.op \in {"addExercise", "removeExercise", "updateExercise", "reorderExercises"}
     /\ ~workoutCall.threw) =>
        /\ Elements(workout.equipment) = Elements(EquipmentOf(workout.exercises))
        /\ Elements(workout.targetMuscles) = Elements(MusclesOf(workout.exercises))
        /\ Len(workout.exercises) > 0 =>
              workout.difficulty =
                 MathRound(DifficultySum(workout.exercises), Len(workout.exercises))

TimedLoads == {i \in 1..Len(loads) : loads[i].via = "loadContentWithTimeout"}

\* C16, always: the promise of a loadContentWithTimeout call is never
\* rejected; it is resolved as soon as the load finished or the timer fired,
\* with the result of the load if the load finished first and with the
\* timeout result if the timer fired first, whether or not the fetch
\* completes
C16_ResolvedAsRaced ==
    \A i \in TimedLoads :
        /\ loads[i].settled # "rejected"
        /\ (loads[i].inner # "pending" \/ loads[i].timer = "fired") =>
              loads[i].settled = "resolved"
        /\ loads[i].first = "load" => loads[i].result = loads[i].inner
        /\ loads[i].first = "timer" => loads[i].result = "timeout"
        /\ loads[i].first = "none" => loads[i].settled = "pending"

\* C16, eventually: every loadContentWithTimeout call is resolved
C16_EventuallyResolved ==
    \A i \in 1..MaxLoads :
        (Len(loads) >= i /\ loads[i].via = "loadContentWithTimeout")
            ~> (Len(loads) >= i /\ loads[i].settled = "resolved")

\* C16: loadContentWithTimeout always settles by resolving, never by
\* rejecting: with the result of the load when the load finishes before the
\* timer, and otherwise with the timeout result once the timer fires, even
\* if the fetch never completes.
C16_TimeoutAlwaysResolves == []C16_ResolvedAsRaced /\ C16_EventuallyResolved

\* C16: a call resolved with the timeout result while its fetch is under way
C16_Witness ==
    \E i \in TimedLoads :
        /\ loads[i].result = "timeout"
        /\ loads[i].settled = "resolved"
        /\ loads[i].role = "creator"
        /\ loads[i].inner = "pending"

\* C20, as claimed: every call made while a fetch of its file is in progress
\* awaits that fetch, and every call made after a fetch with caching enabled
\* succeeded, and before the cache is cleared or invalidated, returns the
\* cached content.
C20_Claimed ==
    \A i \in 1..Len(loads) :
        /\ loads[i].inProgress => loads[i].role = "waiter"
        /\ loads[i].sinceSuccess => loads[i].role = "cached"

\* C20, amended: no call starts a fetch of a file while one is in progress:
\* it awaits that fetch, unless it has caching enabled and the file is
\* cached; and after a fetch started with caching enabled succeeded, every
\* call with caching enabled returns the cached content without fetching,
\* until the cache is cleared or invalidated.  A file has at most one fetch
\* under way.
C20_OneFetchThenCache ==
    /\ \A i \in 1..Len(loads) :
          /\ loads[i].inProgress =>
                loads[i].role = (IF loads[i].useCache /\ loads[i].sinceSuccess
                                 THEN "cached" ELSE "waiter")
          /\ (loads[i].useCache /\ loads[i].sinceSuccess) =>
                (loads[i].role = "cached" /\ loads[i].result = "success")
          /\ loads[i].role = "cached" => loads[i].sinceSuccess
    /\ \A f \in ContentFiles : Cardinality(Creators(f)) <= 1

\* C20: a call that awaited the fetch another call started, and got its
\* content; and a later call that was answered from the cache
C20_Witness ==
    \E i, j, k \in 1..Len(loads) :
        /\ i < j /\ j < k
        /\ loads[i].role = "creator" /\ loads[i].useCache
        /\ loads[j].role = "waiter" /\ loads[j].inProgress /\ loads[j].result = "success"
        /\ loads[k].role = "cached"
        /\ loads[i].file = loads[j].file /\ loads[j].file = loads[k].file

\* C14: whenever navigateTo is called for a route that requires
\* authentication while the application state is not logged in, the call
\* ends at the login route: the history entry it pushes and the content it
\* loads and injects are those of the login route, never those of the route
\* it was called for.
C14_AuthRequiredRedirectsToLogin ==
    \A n \in 1..Len(navigations) :
        LET call == navigations[n]
        IN (/\ HasRouteConfig(call.requested)
            /\ NavigationConfig[call.requested].requiresAuth
            /\ ~call.loggedIn) =>
               /\ call.page = LOGIN_ROUTE
               /\ call.pushed \in {"", LOGIN_ROUTE}
               /\ call.load # 0
               /\ loads[call.load].file = NavigationConfig[LOGIN_ROUTE].path
               /\ loads[call.load].file # NavigationConfig[call.requested].path
               /\ call.injected \in {"", NavigationConfig[LOGIN_ROUTE].path}

\* C14: a call for the profile made while logged out that has injected the
\* login content, after a call made while logged in that injected the
\* profile
C14_Witness ==
    \E m, n \in 1..Len(navigations) :
        /\ m < n
        /\ navigations[m].requested = "profile" /\ navigations[m].loggedIn
        /\ navigations[m].injected = "profile-information.html"
        /\ navigations[n].requested = "profile" /\ ~navigations[n].loggedIn
        /\ navigations[n].done
        /\ navigations[n].injected = "login.html"
        /\ mainContent = "login.html"

\* the session under the key, where there is one
StoredSessions ==
    IF IsSession(localStorage["user-session"])
    THEN {localStorage["user-session"].items[1]} ELSE {}

\* C19, on one step: a stored session expires 8 hours after the saveSession
\* that stored it, or 30 days with rememberMe; loadSession returns the stored
\* session and leaves it where the clock is not past its expiresAt, and
\* returns null and removes the item where the session has expired or the
\* item cannot be parsed
C19_Step ==
    /\ \A s \in StoredSessions :
          s.expiresAt = s.timestamp +
                           (IF s.rememberMe THEN rememberedLifetime ELSE sessionLifetime)
    /\ loadSession =>
          LET item == localStorage["user-session"]
          IN /\ (IsSession(item) /\ clock <= item.items[1].expiresAt) =>
                   (sessionReply'.value = item /\ localStorage' = localStorage)
             /\ (\/ IsSession(item) /\ clock > item.items[1].expiresAt
                 \/ item \in {Unparsable, Null}) =>
                   /\ sessionReply'.value = Null
                   /\ localStorage'["user-session"] = Absent
             /\ IsSession(sessionReply'.value) =>
                   clock <= sessionReply'.value.items[1].expiresAt

\* C19: loadSession returns a stored session only while the current time is
\* not past its expiresAt (8 hours after saveSession, or 30 days with
\* rememberMe); when the stored session has expired or cannot be parsed,
\* loadSession removes it from localStorage and returns null.
C19_SessionUntilExpiry == [][C19_Step]_vars

\* C19: loadSession has just found a remembered session one second past its
\* 30 days, removed it and returned null
C19_Witness ==
    /\ sessionReply.op = "loadSession"
    /\ IsSession(sessionReply.found)
    /\ sessionReply.found.items[1].rememberMe
    /\ sessionReply.now = sessionReply.found.items[1].expiresAt + 1
    /\ sessionReply.value = Null
    /\ localStorage["user-session"] = Absent

C22_NoEntryAfterFinish ==
    /\ \A f \in ContentFiles : loadingPromises[f] \in {"none", "pending"}
    /\ \A i \in 1..Len(loads) :
          (~loads[i].inProgress /\ loads[i].role # "cached") => loads[i].role = "creator"

\* what the container shows once navigation n has completed by itself
ShownBy(n) ==
    LET call == navigations[n]
    IN IF NavigationConfig[call.page].type # RouteTypes.CONTENT THEN call.page
       ELSE IF loads[call.load].result = "success" THEN NavigationConfig[call.page].path
       ELSE ErrorContent

\* C23, as claimed: once all the navigateTo calls made have completed, the
\* main content container shows the page of the last call, currentContent
\* is that page where it is a content page that loaded, and an earlier page
\* is not what they hold.
C23_LastNavigationShown ==
    (Len(navigations) >= 2 /\ \A n \in 1..Len(navigations) : navigations[n].done) =>
        LET n == Len(navigations)
        IN /\ mainContent = ShownBy(n)
           /\ currentContent \in {"", navigations[n].page}

\* C24, as claimed: after any sequence of authenticate, logout and
\* preference saves, no value stored in localStorage holds a user's
\* password.
C24_NoPasswordStored ==
    \A k \in StorageKeys : ~HoldsPassword(localStorage[k])

\* C25, as claimed: a call of authenticate that returned success: false left
\* currentUser as it was when the call resumed and as it was when the call
\* was made, and fired no auth-change callback.
C25_FailedLoginChangesNothing ==
    \A i \in 1..Len(logins) :
        (logins[i].state = "done" /\ ~logins[i].success) =>
            /\ logins[i].left = logins[i].resumed
            /\ logins[i].fired = 0

\* C26: a workout that createWorkout has saved is found by getWorkout(id),
\* and updateWorkout(id, updates) returns the updated workout; neither
\* ends with null or with 'Workout not found'.  Checked for calls whose
\* read of the data file succeeds.
IsCreated(id) ==
    \E k \in 1..Len(StoredArray(localStorage, "user-workouts")) :
       StoredArray(localStorage, "user-workouts")[k].id = id

FoundCreated(id) ==
    /\ reply'.settled = "resolved"
    /\ reply'.value.kind = "entity"
    /\ reply'.value.items[1].id = id

C26_CreatedWorkoutFound ==
    [][/\ \A id \in WorkoutIds, u \in EntityUpdates :
             (IsCreated(id) /\ CacheIsFresh(repository, clock)
                /\ (getWorkout(id) \/ updateWorkout(id, u))) => FoundCreated(id)
       /\ \A i \in 1..MaxServiceRequests :
             (serviceFetchSettles(i, "ok") /\ IsCreated(requests[i].id))
                => FoundCreated(requests[i].id)]_vars

\* C27: after every successful change to the aggregate, moveExercise
\* included, the page has rendered each affected day again: the entries
\* shown for a day, in order, are the manager's list for that day, so an
\* item's data-exercise-index names the entry the user sees.
C27_RenderedMatchesList ==
    \A d \in ViewDays : rendered[d] = getExercisesForDay(workoutData.days, d)

\* C28: a drop into gap k among the items of the target day that are not
\* dragged leaves the dragged entry at index k of that day's list, within
\* one day and across days; a drop into the entry's own gap changes
\* nothing.  Stated for a page that shows the manager's lists.
C28_DropLandsAtGap ==
    [][\A t \in ViewDays, k \in 0..MaxViewEntries :
          (handleDrop(t, k) /\ C27_RenderedMatchesList)
             => LET dragged == workoutData.days[dragData.sourceDay].items[dragData.sourceIndex + 1]
                IN /\ Len(workoutData'.days[t].items) > k
                   /\ workoutData'.days[t].items[k + 1] = dragged
                   /\ (t = dragData.sourceDay /\ k = dragData.sourceIndex)
                         => workoutData' = workoutData]_vars

====
